---- MODULE Spec2Model ----
(***************************************************************************)
(* ReBenchDB: ingestion of benchmark results (src/src/db.ts).              *)
(*                                                                         *)
(* The Database object with its interning caches, the relational store it  *)
(* talks to, and the requests (recordAllData, recordMetaDataAndRuns) that  *)
(* run as interleaved async tasks.  Every `await this.query(...)` is a     *)
(* suspension point: the store executes the statement in one step          *)
(* (DbExec), and the task resumes in a later step (Resume) that runs the   *)
(* JavaScript up to the next statement it issues.                          *)
(***************************************************************************)
EXTENDS Integers, Sequences, FiniteSets, TLC

VARIABLES
  tbl,          \* metadata tables of the store: entity -> set of rows
  measurement,  \* table Measurement: set of <<runId, trialId, inv, it, crit, value>>
  profileData,  \* table ProfileData: set of <<runId, trialId, inv, numIt, value>>
  cache,        \* Database.executors, .suites, ...: entity -> Map(cacheKey -> row)
  req,          \* the request tasks: slot -> task state
  tokens,       \* the TimedCacheValidity objects constructed so far
  statsValid,   \* Database.statsValid: index of the current token in tokens
  updater,      \* Database.timelineUpdater: enabled flag, pending values, submits
  calls,        \* number of requests started so far
  last,         \* the request that finished most recently
  faults,       \* number of statements the store has failed with a non-unique error
  timeline,     \* table Timeline: set of rows
  lastStats,    \* history: (runId, trialId, criterion) -> stats of the latest
                \* recordTimeline call
  admin,        \* the completion or query call made last: its arguments, the
                \* statement it awaits and what it returned or threw
  dash          \* dashboard: the reportGeneration map, the files of
                \* resources/reports, the generation subprocesses running and
                \* what dashCompare returned last

vars == <<tbl, measurement, profileData, cache, req, tokens, statsValid, updater,
          calls, last, faults, timeline, lastStats, admin, dash>>

----------------------------------------------------------------------------
(* Bounds of the model *)

\* requests started in one behaviour
MaxCalls == 2

\* recordMetaDataAndRuns calls in one behaviour of SpecQuery
MaxQueryCalls == 3

\* rows of a timeline statement's result in one behaviour of SpecResponse
MaxRows == 2

\* dashCompare calls in one behaviour of SpecReport
MaxCompareCalls == 4

\* statements the store may fail (connection loss, ...) in one behaviour of SpecFault
MaxFaults == 1

\* unique violations the store raises on the measurement statements of a request
MaxUnique == 2

\* the request tasks that may be in flight together
Slots == {1, 2}

----------------------------------------------------------------------------
(* Program constants *)

\* Database.batchN
batchN == 50

\* the fixed 10-row plan of recordMeasurementBatched10
batch10 == 10

\* util.TotalCriterion
TotalCriterion == "total"

\* the default of the constructor's cacheInvalidationDelay
cacheInvalidationDelay == 0

----------------------------------------------------------------------------
(* Payloads (api.BenchmarkData) *)

\* n data points of invocation inv, iterations 1..n, one measure of criterion 0
DataPoints(inv, n, base) ==
  [i \in 1..n |-> [in |-> inv, it |-> i, m |-> <<[c |-> 0, v |-> base + i]>>]]

RunIdA == [cmdline |-> "cmdA", benchmark |-> "benchA", suite |-> "suite",
           executor |-> "exec", details |-> "w1"]

RunIdB == [cmdline |-> "cmdB", benchmark |-> "benchB", suite |-> "suite",
           executor |-> "exec", details |-> "w1"]

CriteriaTM == <<[i |-> 0, c |-> TotalCriterion, u |-> "ms"],
                [i |-> 1, c |-> "mem", u |-> "MB"]>>

\* small payload: 3 measurements and a profile, as tests/small-payload.json
PSmall ==
  [projectName |-> "proj", experimentName |-> "exp1", experimentDesc |-> "d1",
   startTime |-> "t1",
   env |-> [hostName |-> "host", userName |-> "user", other |-> "linux"],
   source |-> [commitId |-> "c1", branchOrTag |-> "main"],
   criteria |-> CriteriaTM,
   data |-> <<[runId |-> RunIdA, hasD |-> TRUE, d |-> DataPoints(1, 3, 100),
               hasP |-> TRUE, p |-> <<[in |-> 1, nit |-> 3, d |-> "prof"]>>]>>]

\* the same trial with 63 iterations and other values: a 50-row, a 10-row and
\* 3 single-row statements on a fresh store
PBig ==
  [projectName |-> "proj", experimentName |-> "exp1", experimentDesc |-> "d2",
   startTime |-> "t1",
   env |-> [hostName |-> "host", userName |-> "user", other |-> "linux"],
   source |-> [commitId |-> "c1", branchOrTag |-> "main"],
   criteria |-> CriteriaTM,
   data |-> <<[runId |-> RunIdA, hasD |-> TRUE, d |-> DataPoints(1, 63, 200),
               hasP |-> FALSE, p |-> <<>>]>>]

\* another experiment and commit; iterations out of order, two criteria, a key
\* that occurs twice in the payload, a run group with profiles only
PMixed ==
  [projectName |-> "proj", experimentName |-> "exp2", experimentDesc |-> "d1",
   startTime |-> "t1",
   env |-> [hostName |-> "host", userName |-> "user", other |-> "linux"],
   source |-> [commitId |-> "c2", branchOrTag |-> "feature"],
   criteria |-> CriteriaTM,
   data |-> <<[runId |-> RunIdA, hasD |-> TRUE,
               d |-> <<[in |-> 1, it |-> 2, m |-> <<[c |-> 0, v |-> 7], [c |-> 1, v |-> 8]>>],
                       [in |-> 1, it |-> 1, m |-> <<[c |-> 0, v |-> 5]>>],
                       [in |-> 1, it |-> 2, m |-> <<[c |-> 0, v |-> 9]>>]>>,
               hasP |-> FALSE, p |-> <<>>],
              [runId |-> RunIdB, hasD |-> FALSE, d |-> <<>>,
               hasP |-> TRUE, p |-> <<[in |-> 1, nit |-> 2, d |-> "prof"],
                                      [in |-> 1, nit |-> 2, d |-> "prof2"]>>]>>]

\* a third experiment with 113 iterations: two 50-row statements, a 10-row and
\* 3 single-row statements on a fresh store
PHuge ==
  [projectName |-> "proj", experimentName |-> "exp3", experimentDesc |-> "d1",
   startTime |-> "t1",
   env |-> [hostName |-> "host", userName |-> "user", other |-> "linux"],
   source |-> [commitId |-> "c1", branchOrTag |-> "main"],
   criteria |-> CriteriaTM,
   data |-> <<[runId |-> RunIdA, hasD |-> TRUE, d |-> DataPoints(1, 113, 300),
               hasP |-> FALSE, p |-> <<>>]>>]

\* metadata of further trials: no data points, no profiles
MetaOnly(projectName, experimentName, commitId, branchOrTag, startTime) ==
  [projectName |-> projectName, experimentName |-> experimentName,
   experimentDesc |-> "d1", startTime |-> startTime,
   env |-> [hostName |-> "host", userName |-> "user", other |-> "linux"],
   source |-> [commitId |-> commitId, branchOrTag |-> branchOrTag],
   criteria |-> CriteriaTM,
   data |-> <<[runId |-> RunIdA, hasD |-> FALSE, d |-> <<>>,
               hasP |-> FALSE, p |-> <<>>]>>]

\* a later trial of the experiment and commit of PSmall
PLate == MetaOnly("proj", "exp1", "c1", "main", "t3")

\* another commit on the same branch, in between
PMid == MetaOnly("proj", "exp1", "c3", "main", "t2")

\* a commit recorded in another project only
POther == MetaOnly("my proj", "exp1", "c9", "main", "t2")

\* the trial of PSmall submitted again with another experiment description,
\* commit, run details, measurement values and profile
PResub ==
  [projectName |-> "proj", experimentName |-> "exp1", experimentDesc |-> "d3",
   startTime |-> "t1",
   env |-> [hostName |-> "host", userName |-> "user", other |-> "linux"],
   source |-> [commitId |-> "c3", branchOrTag |-> "feature"],
   criteria |-> CriteriaTM,
   data |-> <<[runId |-> [RunIdA EXCEPT !.details = "w2"], hasD |-> TRUE,
               d |-> DataPoints(1, 3, 500),
               hasP |-> TRUE, p |-> <<[in |-> 1, nit |-> 3, d |-> "prof9"]>>]>>]

PayloadNames == {"small", "big", "mixed", "huge", "late", "mid", "other", "resub"}

Payload(n) ==
  CASE n = "small" -> PSmall [] n = "big" -> PBig [] n = "huge" -> PHuge
    [] n = "late" -> PLate [] n = "mid" -> PMid [] n = "other" -> POther
    [] n = "resub" -> PResub
    [] OTHER -> PMixed

----------------------------------------------------------------------------
(* The store *)

Entities == {"Environment", "Project", "Experiment", "Source", "Trial", "Unit",
             "Criterion", "Executor", "Suite", "Benchmark", "Run"}

\* entities that have an interning cache in Database
CachedEntities == Entities \ {"Unit"}

NoRow == [id |-> 0, key |-> <<>>, attrs |-> <<>>]

\* no completion or query call was made
NoAdmin ==
  [op |-> "", state |-> "idle", args |-> <<>>, exp |-> NoRow, ret |-> <<>>,
   err |-> ""]

\* a field that was never assigned, and the error of a subprocess that ended
\* with status 0
Undefined == "undefined"

NoError == "null"

\* the dashboard module is loaded: const reportGeneration = new Map(), no
\* report in resources/reports, no subprocess, dashCompare not yet called
NoDash ==
  [reportGeneration |-> <<>>,   \* reportId -> {error, stdout, stderr, inProgress}
   reports |-> <<>>,            \* reportId -> <<base, change>> the file was made from
   children |-> {},             \* the subprocesses that have not ended
   started |-> <<>>,            \* history: reportId -> number of execFile calls
   completed |-> 0,             \* history: number of completeRequest calls
   calls |-> 0,                 \* number of dashCompare calls, which is its clock
   data |-> <<>>]               \* what the last dashCompare call returned

\* result of a statement: pg.QueryResult, or the error thrown
Result(n, rs) == [ok |-> TRUE, code |-> "", rowCount |-> n, rows |-> rs]

Failure(c) == [ok |-> FALSE, code |-> c, rowCount |-> 0, rows |-> {}]

NoRes == [ok |-> FALSE, code |-> "none", rowCount |-> 0, rows |-> {}]

\* SELECT * FROM <e> WHERE <natural key> = key
SelectByKey(e, key) == {r \in tbl[e] : r.key = key}

\* the serial id a new row of e gets
NextId(e) == Cardinality(tbl[e]) + 1

\* the unique constraint on the natural key of e refuses the row
UniqueViolation(e, key) == SelectByKey(e, key) # {}

\* the primary key of Measurement
MeasKey(t) == <<t[1], t[2], t[3], t[4], t[5]>>

\* the primary key of ProfileData
ProfKey(t) == <<t[1], t[2], t[3], t[4]>>

\* the row a single-row INSERT ... RETURNING * stores
NewRow(e, key, attrs) == [id |-> NextId(e), key |-> key, attrs |-> attrs]

\* INSERT INTO Measurement ... ON CONFLICT DO NOTHING, the rows of ts in order:
\* a row whose key is stored (or came earlier in the statement) is left out
\* (the table afterwards and the statement's rowCount)
\* a plain INSERT of every row, without the conflict target
InsertMeasurementRows_noConflict(st, ts) ==
  [table |-> st.table \cup {ts[i] : i \in 1..Len(ts)}, n |-> st.n + Len(ts)]

\* the statement reports every row it was given
InsertMeasurementRows_countsAll(st, ts) ==
  [table |-> st.table \cup
               {ts[i] : i \in {j \in 1..Len(ts) :
                                /\ ~\E r \in st.table : MeasKey(r) = MeasKey(ts[j])
                                /\ ~\E k \in 1..(j - 1) : MeasKey(ts[k]) = MeasKey(ts[j])}},
   n |-> st.n + Len(ts)]

InsertMeasurementRows(st, ts) ==
  LET ins == {i \in 1..Len(ts) :
                /\ ~\E r \in st.table : MeasKey(r) = MeasKey(ts[i])
                /\ ~\E j \in 1..(i - 1) : MeasKey(ts[j]) = MeasKey(ts[i])}
  IN [table |-> st.table \cup {ts[i] : i \in ins}, n |-> st.n + Cardinality(ins)]

\* INSERT INTO ProfileData ... ON CONFLICT DO NOTHING
\* an upsert, which reports a row for every statement
InsertProfileRow_upsert(table, t) ==
  [table |-> {x \in table : ProfKey(x) # ProfKey(t)} \cup {t}, n |-> 1]

InsertProfileRow(table, t) ==
  IF \E r \in table : ProfKey(r) = ProfKey(t)
    THEN [table |-> table, n |-> 0]
    ELSE [table |-> table \cup {t}, n |-> 1]

\* recordTimeline: the row of the VALUES list, $1 .. $11
TimelineRow(runId, trialId, criterion, stats) ==
  [runid |-> runId, trialid |-> trialId, criterion |-> criterion,
   minval |-> stats.min, maxval |-> stats.max, sdval |-> stats.standardDeviation,
   mean |-> stats.mean, median |-> stats.median,
   numsamples |-> stats.numberOfSamples,
   bci95low |-> stats.bci95low, bci95up |-> stats.bci95up]

TimelineKey(x) == <<x.runid, x.trialid, x.criterion>>

\* ON CONFLICT (runid, trialid, criterion) DO NOTHING
recordTimeline_doNothing(table, runId, trialId, criterion, stats) ==
  LET row == TimelineRow(runId, trialId, criterion, stats) IN
  IF \E x \in table : TimelineKey(x) = TimelineKey(row)
    THEN [table |-> table, n |-> 0]
    ELSE [table |-> table \cup {row}, n |-> 1]

\* recordTimeline: INSERT INTO timeline ... ON CONFLICT (runid, trialid,
\* criterion) DO UPDATE SET minval = EXCLUDED.minval, ... (the table afterwards
\* and the statement's rowCount)
recordTimeline(table, runId, trialId, criterion, stats) ==
  LET row == TimelineRow(runId, trialId, criterion, stats)
      conflict == {x \in table : TimelineKey(x) = TimelineKey(row)}
      update(x) == [x EXCEPT !.minval = row.minval, !.maxval = row.maxval,
                             !.sdval = row.sdval, !.mean = row.mean,
                             !.median = row.median, !.numsamples = row.numsamples,
                             !.bci95low = row.bci95low, !.bci95up = row.bci95up]
  IN IF conflict = {}
       THEN [table |-> table \cup {row}, n |-> 1]
       ELSE [table |-> (table \ conflict) \cup {update(x) : x \in conflict}, n |-> 1]

Max(S) == CHOOSE x \in S : \A y \in S : y <= x

\* SELECT runId, criterion, invocation, max(iteration) FROM Measurement
\* WHERE trialId = $1 GROUP BY runId, criterion, invocation
AvailableRows(table, trialId) ==
  {<<r[1], r[5], r[3],
     Max({x[4] : x \in {y \in table : /\ y[2] = trialId /\ y[1] = r[1]
                                      /\ y[5] = r[5] /\ y[3] = r[3]}})>> :
     r \in {y \in table : y[2] = trialId}}

----------------------------------------------------------------------------
(* TimedCacheValidity *)

\* new TimedCacheValidity(invalidationDelay); timers are the pending setTimeout
\* callbacks of the token, each with the number of the invalidateAndNew call
\* that set it, and invalidations counts the calls of invalidateAndNew on it
NewToken(invalidationDelay) ==
  [valid |-> TRUE, scheduledInvalidation |-> FALSE,
   invalidationDelay |-> invalidationDelay, timers |-> <<>>, invalidations |-> 0]

\* every call sets a timer, whether one is pending or not
invalidateAndNew_reschedule(toks, i) ==
  LET t == [toks[i] EXCEPT !.invalidations = @ + 1]
      t1 == IF t.invalidationDelay = 0
              THEN [t EXCEPT !.scheduledInvalidation = TRUE, !.valid = FALSE]
              ELSE [t EXCEPT !.scheduledInvalidation = TRUE,
                             !.timers = Append(@, t.invalidations)]
      ts == [toks EXCEPT ![i] = t1]
  IN IF t1.valid THEN [tokens |-> ts, ret |-> i]
     ELSE [tokens |-> Append(ts, NewToken(t1.invalidationDelay)), ret |-> Len(ts) + 1]

\* the token returned is always a new one
invalidateAndNew_alwaysNew(toks, i) ==
  LET t == [toks[i] EXCEPT !.invalidations = @ + 1]
      t1 == IF ~t.scheduledInvalidation
              THEN IF t.invalidationDelay = 0
                     THEN [t EXCEPT !.scheduledInvalidation = TRUE, !.valid = FALSE]
                     ELSE [t EXCEPT !.scheduledInvalidation = TRUE,
                                    !.timers = Append(@, t.invalidations)]
              ELSE t
      ts == [toks EXCEPT ![i] = t1]
  IN [tokens |-> Append(ts, NewToken(t1.invalidationDelay)), ret |-> Len(ts) + 1]

\* invalidateAndNew() on token i: the tokens afterwards and the index of the
\* token returned
\* an invalid token is made valid again and returned
invalidateAndNew_reuse(toks, i) ==
  LET t == [toks[i] EXCEPT !.invalidations = @ + 1]
      t1 == IF ~t.scheduledInvalidation
              THEN IF t.invalidationDelay = 0
                     THEN [t EXCEPT !.scheduledInvalidation = TRUE, !.valid = FALSE]
                     ELSE [t EXCEPT !.scheduledInvalidation = TRUE,
                                    !.timers = Append(@, t.invalidations)]
              ELSE [t EXCEPT !.valid = TRUE, !.scheduledInvalidation = FALSE]
  IN [tokens |-> [toks EXCEPT ![i] = t1], ret |-> i]

invalidateAndNew(toks, i) ==
  LET t == [toks[i] EXCEPT !.invalidations = @ + 1]
      t1 == IF ~t.scheduledInvalidation
              THEN IF t.invalidationDelay = 0
                     THEN [t EXCEPT !.scheduledInvalidation = TRUE, !.valid = FALSE]
                     ELSE [t EXCEPT !.scheduledInvalidation = TRUE,
                                    !.timers = Append(@, t.invalidations)]
              ELSE t
      ts == [toks EXCEPT ![i] = t1]
  IN IF t1.valid THEN [tokens |-> ts, ret |-> i]
     ELSE [tokens |-> Append(ts, NewToken(t1.invalidationDelay)), ret |-> Len(ts) + 1]

----------------------------------------------------------------------------
(* Request tasks *)

\* a statement handed to Database.query
Query(t, name, e, key, attrs, rows) ==
  [t |-> t, name |-> name, e |-> e, key |-> key, attrs |-> attrs, rows |-> rows]

NoQuery == Query("none", "", "", <<>>, <<>>, <<>>)

\* a task slot before its first request
IdleReq ==
  [status |-> "idle", kind |-> "", p |-> "small", suppress |-> FALSE,
   lbl |-> "", e |-> "", q |-> NoQuery, hasRes |-> FALSE, res |-> NoRes,
   err |-> "",
   loc |-> [e \in CachedEntities |-> NoRow],   \* env, exp, trial, run, ... locals
   criteria |-> <<>>,                          \* Map index -> Criterion, as pairs
   ci |-> 0, g |-> 0, pos |-> 0, pi |-> 0,
   availableMs |-> <<>>,
   batchedValues |-> <<>>, batchedMs |-> 0, rest |-> <<>>,
   fb |-> <<>>, fbFrom |-> "", fbRec |-> 0,
   mRec |-> 0, pRec |-> 0,
   recordedMeasurements |-> 0, recordedProfiles |-> 0, ret |-> <<0, 0>>,
   \* history of the request, for the properties only
   callNo |-> 0, repeat |-> FALSE, addedMeta |-> 0, addedM |-> 0, addedP |-> 0,
   sent |-> <<>>, snapshot |-> {}, measDone |-> 0,
   insErr |-> FALSE, measErr |-> FALSE,
   retry |-> FALSE,    \* the request before this one failed, on the same payload
   plan |-> <<>>,      \* <<name, tuples, parameters>> of the statements of `sent`
   resent |-> <<>>,    \* the tuples sent again, one by one, after a failed batch
   uq |-> 0,           \* the unique violations raised on measurement statements
   uqB |-> <<>>,       \* the tuples of the batches whose statement raised one
   uqS |-> <<>>,       \* the tuples whose single-row statement raised one
   raced |-> "",   \* the entity whose insert lost a race, until the next return
   subAt |-> -1]   \* the updater's submits at the request's last addValue

isUniqueViolationError(err) == err.code = "23505"

\* Project.slug: regexp_replace(name, '[^0-9a-zA-Z-]', '-', 'g') on the names used
Slug(name) == CASE name = "my proj" -> "my-proj" [] OTHER -> name

CurCriterion(s) == Payload(s.p).criteria[s.ci]

CurGroup(s) == Payload(s.p).data[s.g]

\* the key under which the entity's cache holds the row the request needs
CacheKey(e, s) ==
  LET P == Payload(s.p) IN
  CASE e = "Environment" -> P.env.hostName
    [] e = "Project"     -> P.projectName
    [] e = "Experiment"  -> P.projectName \o "::" \o P.experimentName
    [] e = "Source"      -> P.source.commitId
    [] e = "Trial"       -> P.env.userName \o "-" \o ToString(s.loc["Environment"].id)
                            \o "-" \o P.startTime \o "-"
                            \o ToString(s.loc["Experiment"].id)
    [] e = "Criterion"   -> CurCriterion(s).c \o "::" \o CurCriterion(s).u
    [] e = "Executor"    -> CurGroup(s).runId.executor
    [] e = "Suite"       -> CurGroup(s).runId.suite
    [] e = "Benchmark"   -> CurGroup(s).runId.benchmark
    [] OTHER             -> CurGroup(s).runId.cmdline

\* the values of the fetch statement: the natural key of the row
NaturalKey(e, s) ==
  LET P == Payload(s.p) IN
  CASE e = "Environment" -> <<P.env.hostName>>
    [] e = "Project"     -> <<P.projectName>>
    [] e = "Experiment"  -> <<s.loc["Project"].id, P.experimentName>>
    [] e = "Source"      -> <<P.source.commitId>>
    [] e = "Trial"       -> <<P.env.userName, s.loc["Environment"].id, P.startTime,
                              s.loc["Experiment"].id>>
    [] e = "Unit"        -> <<CurCriterion(s).u>>
    [] e = "Criterion"   -> <<CurCriterion(s).c, CurCriterion(s).u>>
    [] e = "Executor"    -> <<CurGroup(s).runId.executor>>
    [] e = "Suite"       -> <<CurGroup(s).runId.suite>>
    [] e = "Benchmark"   -> <<CurGroup(s).runId.benchmark>>
    [] OTHER             -> <<CurGroup(s).runId.cmdline>>

\* the other columns the insert statement sets
InsertAttrs(e, s) ==
  LET P == Payload(s.p) IN
  CASE e = "Environment" -> <<P.env.other>>
    [] e = "Project"     -> <<Slug(P.projectName), "">>
    [] e = "Experiment"  -> <<P.experimentDesc>>
    [] e = "Source"      -> <<P.source.branchOrTag>>
    [] e = "Trial"       -> <<s.loc["Source"].id, "">>
    [] e = "Run"         -> <<s.loc["Benchmark"].id, s.loc["Executor"].id,
                              s.loc["Suite"].id, CurGroup(s).runId.details>>
    [] OTHER             -> <<>>

fetchQ(e, s) == Query("fetch", "fetch" \o e, e, NaturalKey(e, s), <<>>, <<>>)

\* an insert statement whose values miss the natural key
insertQ_otherKey(e, s) ==
  Query("insert", "insert" \o e, e, NaturalKey(e, s) \o <<"x">>, InsertAttrs(e, s), <<>>)

insertQ(e, s) == Query("insert", "insert" \o e, e, NaturalKey(e, s), InsertAttrs(e, s), <<>>)

\* the task suspends in `await this.query(q)`, to resume at lbl
Await(m, lbl, q) ==
  [m EXCEPT !.s.lbl = lbl, !.s.q = q, !.s.hasRes = FALSE, !.s.res = NoRes,
            !.pc = ""]

\* the request is over: only its outcome (and its history) remains
Over(s, status, ret, err) ==
  [IdleReq EXCEPT !.status = status, !.kind = s.kind, !.p = s.p,
                  !.suppress = s.suppress, !.ret = ret, !.err = err,
                  !.callNo = s.callNo, !.repeat = s.repeat,
                  !.addedMeta = s.addedMeta, !.addedM = s.addedM,
                  !.addedP = s.addedP, !.sent = s.sent, !.snapshot = s.snapshot,
                  !.measDone = s.measDone, !.insErr = s.insErr,
                  !.measErr = s.measErr, !.retry = s.retry, !.plan = s.plan,
                  !.resent = s.resent, !.uq = s.uq, !.uqB = s.uqB,
                  !.uqS = s.uqS, !.subAt = s.subAt]

\* an error leaves the request; lbl keeps the statement that raised it
Throw(m, code) ==
  [m EXCEPT !.s = [Over(m.s, "failed", <<0, 0>>, code) EXCEPT !.lbl = m.s.lbl],
            !.pc = ""]

\* control passes to the program point l
Go(l, m) == [m EXCEPT !.pc = l]

\* Map.set on an interning cache
CacheSet(c, e, k, row) ==
  [c EXCEPT ![e] = [x \in DOMAIN c[e] \cup {k} |-> IF x = k THEN row ELSE c[e][x]]]

\* criteria.set(i, row) of resolveCriteria
CriteriaSet(cs, i, row) ==
  SelectSeq(cs, LAMBDA x : x[1] # i) \o <<<<i, row>>>>

\* criteria.get(i)
CriteriaGet(cs, i) == (CHOOSE x \in {cs[j] : j \in DOMAIN cs} : x[1] = i)[2]

----------------------------------------------------------------------------
(* Timeline updater, as far as Database calls it *)

\* BatchingTimelineUpdater.addValue
addValue(upd, runId, trialId, criterionId, value) ==
  LET k == <<trialId, runId, criterionId>>
      old == IF k \in DOMAIN upd.pending THEN upd.pending[k] ELSE <<>>
  IN [upd EXCEPT !.pending = [x \in DOMAIN upd.pending \cup {k} |->
                                IF x = k THEN Append(old, value) ELSE upd.pending[x]]]

\* addValue(runId, trialId, criterion.id, value) for each of the tuples
\* <<runId, trialId, inv, ite, critId, value>> in order
addValues(upd, ts) ==
  LET K(t) == <<t[2], t[1], t[5]>>
      ks == {K(ts[i]) : i \in 1..Len(ts)}
      old(k) == IF k \in DOMAIN upd.pending THEN upd.pending[k] ELSE <<>>
      new(k) == LET sel == SelectSeq(ts, LAMBDA t : K(t) = k)
                IN [i \in 1..Len(sel) |-> sel[i][6]]
  IN [upd EXCEPT !.pending = [k \in DOMAIN upd.pending \cup ks |->
                                IF k \in ks THEN old(k) \o new(k) ELSE old(k)]]

\* new BatchingTimelineUpdater(db, numBootstrapSamples), or null: pending maps
\* (trialId, runId, criterionId) to the values added, queue is the table
\* TimelineCalcJob (key -> number of rows), jobs the map the consumer drained
\* and works on, triggered says that the consumer was woken and has not come
\* to rest, fromValues that it computed a row from the values it was handed
NewUpdater(enabled) ==
  [enabled |-> enabled, pending |-> <<>>, submits |-> 0, queue |-> <<>>,
   jobs |-> <<>>, triggered |-> FALSE, fromValues |-> FALSE]

\* every key of pending gets a new row in TimelineCalcJob, queued or not
submitUpdateJobs_insert(upd) ==
  [upd EXCEPT !.submits = @ + 1,
              !.queue = [k \in DOMAIN upd.queue \cup DOMAIN upd.pending |->
                           IF k \notin DOMAIN upd.pending THEN upd.queue[k]
                           ELSE IF k \in DOMAIN upd.queue THEN upd.queue[k] + 1
                           ELSE 1],
              !.triggered = TRUE]

\* BatchingTimelineUpdater.submitUpdateJobs: a row in TimelineCalcJob for each
\* key of pending that has none, and the consumer is woken
submitUpdateJobs(upd) ==
  [upd EXCEPT !.submits = @ + 1,
              !.queue = [k \in DOMAIN upd.queue \cup DOMAIN upd.pending |->
                           IF k \in DOMAIN upd.queue THEN upd.queue[k] ELSE 1],
              !.triggered = TRUE]

\* the summary statistics of a sample (a sequence of values); the bootstrap
\* interval is taken as the range of the sample
RECURSIVE SumOf(_)
SumOf(vs) == IF vs = <<>> THEN 0 ELSE Head(vs) + SumOf(Tail(vs))

SummaryStatistics(vs) ==
  LET S == {vs[i] : i \in 1..Len(vs)}
      lo == CHOOSE x \in S : \A y \in S : x <= y
      hi == CHOOSE x \in S : \A y \in S : y <= x
      below(i) == Cardinality({j \in 1..Len(vs) :
                                 vs[j] < vs[i] \/ (vs[j] = vs[i] /\ j < i)})
      mid == CHOOSE i \in 1..Len(vs) : below(i) = (Len(vs) - 1) \div 2
  IN [min |-> lo, max |-> hi, standardDeviation |-> 0,
      mean |-> SumOf(vs) \div Len(vs), median |-> vs[mid],
      numberOfSamples |-> Len(vs), bci95low |-> lo, bci95up |-> hi]

----------------------------------------------------------------------------
(* Measurements of a run group *)

\* the measures of the data points lo..hi, in payload order
RECURSIVE FlatRange(_, _, _)
FlatRange(dps, lo, hi) ==
  IF lo > hi THEN <<>>
  ELSE IF lo = hi
    THEN [j \in 1..Len(dps[lo].m) |->
            [in |-> dps[lo].in, it |-> dps[lo].it,
             c |-> dps[lo].m[j].c, v |-> dps[lo].m[j].v]]
    ELSE FlatRange(dps, lo, (lo + hi) \div 2)
           \o FlatRange(dps, ((lo + hi) \div 2) + 1, hi)

\* the (invocation, iteration, criterion index, value) of a run group, in
\* payload order: for (const d of dataPoints) for (const m of d.m)
FlatMeasures(dps) == FlatRange(dps, 1, Len(dps))

\* the flat measures of every run group of every payload
Flat ==
  [pn \in PayloadNames |->
     [g \in 1..Len(Payload(pn).data) |-> FlatMeasures(Payload(pn).data[g].d)]]

\* retrieveAvailableMeasurements: measurements[runid][criterion][inv] = ite
\* from the rows <<runid, criterion, inv, ite>> of the aggregate query
AvailableMs(rows) ==
  [k \in {<<a[1], a[2], a[3]>> : a \in rows} |->
     (CHOOSE a \in rows : <<a[1], a[2], a[3]>> = k)[4]]

\* the comparison with the stored maximum is strict
alreadyRecorded_strict(measurements, values) ==
  LET k == <<values[1], values[5], values[3]>> IN
  IF k \in DOMAIN measurements THEN measurements[k] > values[4] ELSE FALSE

\* alreadyRecorded(measurements, [runId, _expId, inv, ite, critId, _val])
alreadyRecorded(measurements, values) ==
  LET k == <<values[1], values[5], values[3]>> IN
  IF k \in DOMAIN measurements THEN measurements[k] >= values[4] ELSE FALSE

\* every tuple of the VALUES list lacks its last placeholder
generateBatchInsert_short(numTuples, sizeTuples) ==
  [i \in 1..numTuples |-> [j \in 1..(sizeTuples - 1) |-> (i - 1) * sizeTuples + j]]

\* generateBatchInsert(numTuples, sizeTuples): the placeholder numbers of the
\* VALUES list, one sequence per tuple
generateBatchInsert(numTuples, sizeTuples) ==
  [i \in 1..numTuples |-> [j \in 1..sizeTuples |-> (i - 1) * sizeTuples + j]]

\* the placeholders of the statement texts insertMeasurementN,
\* insertMeasurement10 and insertMeasurement
Placeholders(name) ==
  CASE name = "insertMeasurementN"  -> generateBatchInsert(batchN, 6)
    [] name = "insertMeasurement10" -> [i \in 1..10 |-> [j \in 1..6 |-> (i - 1) * 6 + j]]
    [] OTHER                        -> <<<<1, 2, 3, 4, 5, 6>>>>

\* batchedValues = batchedValues.concat(values): the flat parameter array of
\* the tuples, which are of one size
Values(rows) ==
  IF rows = <<>> THEN <<>>
  ELSE LET sz == Len(rows[1]) IN
       [k \in 1..(Len(rows) * sz) |-> rows[((k - 1) \div sz) + 1][((k - 1) % sz) + 1]]

\* the statement takes the tuples last first
AwaitMeasurement_reversed(m, lbl, name, rows, first) ==
  LET rev == [i \in 1..Len(rows) |-> rows[Len(rows) + 1 - i]] IN
  Await([m EXCEPT !.s.sent = IF first THEN @ \o rev ELSE @,
                  !.s.plan = IF first
                               THEN Append(@, <<name, Len(rows), Len(Values(rows))>>)
                               ELSE @,
                  !.s.resent = IF first THEN @ ELSE @ \o rows],
        lbl, Query("insMeas", name, "", <<>>, <<>>, rev))

\* a measurement statement of the plan `name` goes to the store
AwaitMeasurement(m, lbl, name, rows, first) ==
  Await([m EXCEPT !.s.sent = IF first THEN @ \o rows ELSE @,
                  !.s.plan = IF first
                               THEN Append(@, <<name, Len(rows), Len(Values(rows))>>)
                               ELSE @,
                  !.s.resent = IF first THEN @ ELSE @ \o rows],
        lbl, Query("insMeas", name, "", <<>>, <<>>, rows))

----------------------------------------------------------------------------
(* The JavaScript of a request between two suspension points.               *)
(* m = [s: the task, cache: the interning caches, upd: the updater, pc: the *)
(* program point control is at, "" once the task awaits or is over].        *)

\* the locals that are live once record<Entity> has returned: recordExperiment
\* returns and its project is gone, recordTrial returns and env, exp and source
\* are used no more, recordRun returns and exec, suite and benchmark are gone
Scope(e, loc) ==
  LET dead == CASE e = "Experiment" -> {"Project"}
                [] e = "Trial"      -> {"Environment", "Experiment", "Source"}
                [] e = "Run"        -> {"Executor", "Suite", "Benchmark"}
                [] OTHER            -> {}
  IN [x \in DOMAIN loc |-> IF x \in dead THEN NoRow ELSE loc[x]]

\* the record<Entity> call returned row
Bind(m, e, row) ==
  [m EXCEPT !.s.loc = Scope(e, [@ EXCEPT ![e] = row]), !.s.e = "", !.s.err = "",
            !.s.raced = ""]

\* the locals of recordMeasurements and of the loop body of recordAllData are
\* gone when the next run group starts
NextGroup(m) ==
  [m EXCEPT !.s.g = @ + 1, !.s.loc["Run"] = NoRow, !.s.availableMs = <<>>,
            !.s.pos = 0, !.s.pi = 0, !.s.batchedValues = <<>>, !.s.batchedMs = 0,
            !.s.rest = <<>>, !.s.fb = <<>>, !.s.fbFrom = "", !.s.fbRec = 0,
            !.s.mRec = 0, !.s.pRec = 0]

\* the program point after record<Entity> returned
After(e) ==
  CASE e = "Environment" -> "recordExperiment"
    [] e = "Project"     -> "rc.Experiment"
    [] e = "Experiment"  -> "recordTrial"
    [] e = "Source"      -> "rc.Trial"
    [] e = "Trial"       -> "resolveCriteria"
    [] e = "Criterion"   -> "criterionDone"
    [] e = "Executor"    -> "rc.Suite"
    [] e = "Suite"       -> "rc.Benchmark"
    [] e = "Benchmark"   -> "rc.Run"
    [] OTHER             -> "afterRun"

IsCached(m, e) == CacheKey(e, m.s) \in DOMAIN m.cache[e]

Cached(m, e) == m.cache[e][CacheKey(e, m.s)]

\* the cache is not looked at
recordCached_uncached(e, m) ==
  Await([m EXCEPT !.s.e = e], "rc.fetch", fetchQ(e, m.s))

\* recordCached up to its first await
recordCached(e, m) ==
  IF IsCached(m, e)
    THEN Go(After(e), Bind(m, e, Cached(m, e)))
    ELSE Await([m EXCEPT !.s.e = e], "rc.fetch", fetchQ(e, m.s))

\* recordCached: cache.set(cacheKey, result.rows[0]); return result.rows[0]
recordCachedReturn(m, rows) ==
  LET row == CHOOSE x \in rows : TRUE IN
  Go(After(m.s.e),
     Bind([m EXCEPT !.cache = CacheSet(m.cache, m.s.e, CacheKey(m.s.e, m.s), row)],
          m.s.e, row))

\* the catch block rethrows at once
recordCachedCatch_rethrow(m, e) == Throw(m, e.code)

\* recordCached: catch (e) { result = await this.query(fetchQ) ... }
recordCachedCatch(m, e) ==
  Await([m EXCEPT !.s.err = e.code], "rc.refetch", fetchQ(m.s.e, m.s))

\* suppressTimelineGeneration is not looked at
Return_unsuppressed(m) ==
  IF m.s.kind = "meta"
    THEN [m EXCEPT !.s = Over(m.s, "done", <<Len(Payload(m.s.p).data), 0>>, ""),
                   !.pc = ""]
    ELSE [m EXCEPT !.s = Over(m.s, "done", <<m.s.recordedMeasurements,
                                             m.s.recordedProfiles>>, ""),
                   !.pc = "",
                   !.upd = IF m.s.recordedMeasurements > 0 /\ m.upd.enabled
                             THEN submitUpdateJobs(m.upd) ELSE m.upd]

\* recordMetaDataAndRuns submits the update jobs as well
Return_metaSubmits(m) ==
  IF m.s.kind = "meta"
    THEN [m EXCEPT !.s = Over(m.s, "done", <<Len(Payload(m.s.p).data), 0>>, ""),
                   !.pc = "",
                   !.upd = IF m.upd.enabled THEN submitUpdateJobs(m.upd) ELSE m.upd]
    ELSE [m EXCEPT !.s = Over(m.s, "done", <<m.s.recordedMeasurements,
                                             m.s.recordedProfiles>>, ""),
                   !.pc = "",
                   !.upd = IF /\ m.s.recordedMeasurements > 0
                              /\ m.upd.enabled
                              /\ ~m.s.suppress
                             THEN submitUpdateJobs(m.upd) ELSE m.upd]

\* recordAllData / recordMetaDataAndRuns: the return
Return(m) ==
  IF m.s.kind = "meta"
    THEN [m EXCEPT !.s = Over(m.s, "done", <<Len(Payload(m.s.p).data), 0>>, ""),
                   !.pc = ""]
    ELSE [m EXCEPT !.s = Over(m.s, "done", <<m.s.recordedMeasurements,
                                             m.s.recordedProfiles>>, ""),
                   !.pc = "",
                   !.upd = IF /\ m.s.recordedMeasurements > 0
                              /\ m.upd.enabled
                              /\ ~m.s.suppress
                             THEN submitUpdateJobs(m.upd) ELSE m.upd]

\* recordMeasurements: the loop over the data points from position s.pos, up
\* to the statement that takes the batch of batchN tuples, or to the loop's end
recordMeasurements(m) ==
  LET s == m.s
      \* the loop over T, the flat measures of the run group
      loop(T) ==
        LET values(i) == <<s.loc["Run"].id, s.loc["Trial"].id, T[i].in, T[i].it,
                           CriteriaGet(s.criteria, T[i].c).id, T[i].v>>
            isTotal(i) == CriteriaGet(s.criteria, T[i].c).key[1] = TotalCriterion
            \* the positions still to visit whose tuple is not skipped
            acc == {i \in s.pos..Len(T) : ~alreadyRecorded(s.availableMs, values(i))}
            need == batchN - s.batchedMs
            full == Cardinality(acc) >= need
            stop == IF full
                      THEN CHOOSE i \in acc : Cardinality({j \in acc : j <= i}) = need
                      ELSE Len(T)
            idx == SelectSeq([k \in 1..(stop - s.pos + 1) |-> s.pos + k - 1],
                             LAMBDA i : i \in acc)
            taken == [k \in 1..Len(idx) |-> values(idx[k])]
            totals == LET ti == SelectSeq(idx, isTotal)
                      IN [k \in 1..Len(ti) |-> values(ti[k])]
            m1 == [m EXCEPT
                     !.upd = IF m.upd.enabled THEN addValues(@, totals) ELSE @,
                     !.s.subAt = IF m.upd.enabled /\ totals # <<>>
                                   THEN m.upd.submits ELSE @,
                     !.s.batchedMs = @ + Len(taken),
                     !.s.batchedValues = @ \o taken,
                     !.s.pos = stop + 1]
        IN IF full
             THEN AwaitMeasurement(m1, "measN", "insertMeasurementN",
                                   m1.s.batchedValues, TRUE)
             ELSE Go("residual", m1)
  IN loop(Flat[s.p][s.g])

\* the loop over the batch is never entered
recordMeasurementsFromBatch_dropped(m) ==
  Go("profiles", [m EXCEPT !.s.recordedMeasurements = @ + m.s.mRec,
                           !.s.measDone = m.s.g])

\* recordMeasurementsFromBatch: one single-row statement per tuple of s.fb
recordMeasurementsFromBatch(m) ==
  IF m.s.fb # <<>>
    THEN AwaitMeasurement(m, "single", "insertMeasurement", <<Head(m.s.fb)>>,
                          m.s.fbFrom = "final")
    ELSE
      LET m1 == [m EXCEPT !.s.mRec = @ + m.s.fbRec] IN
      CASE m.s.fbFrom = "N" ->
             recordMeasurements([m1 EXCEPT !.s.batchedValues = <<>>,
                                           !.s.batchedMs = 0])
        [] m.s.fbFrom = "10" ->
             Go("residual", [m1 EXCEPT !.s.batchedValues = m.s.rest])
        [] OTHER ->
             Go("profiles", [m1 EXCEPT !.s.recordedMeasurements = @ + m1.s.mRec,
                                       !.s.measDone = m.s.g])

\* the code at program point m.pc, up to the next program point
Step(m) ==
  LET l == m.pc IN
  CASE l = "recordMetaData" -> recordCached("Environment", m)
    [] l = "recordExperiment" ->
         IF IsCached(m, "Experiment")
           THEN Go("recordTrial", Bind(m, "Experiment", Cached(m, "Experiment")))
           ELSE recordCached("Project", m)
    [] l = "rc.Experiment" -> recordCached("Experiment", m)
    [] l = "recordTrial" ->
         IF IsCached(m, "Trial")
           THEN Go("resolveCriteria", Bind(m, "Trial", Cached(m, "Trial")))
           ELSE recordCached("Source", m)
    [] l = "rc.Trial" -> recordCached("Trial", m)
    [] l = "resolveCriteria" ->
         Go("criteriaLoop", [m EXCEPT !.s.ci = 1, !.s.criteria = <<>>])
    [] l = "criteriaLoop" ->
         IF m.s.ci > Len(Payload(m.s.p).criteria)
           THEN Go("groupLoop", [m EXCEPT !.s.g = 1])
           ELSE IF IsCached(m, "Criterion")
                  THEN Go("criterionDone", Bind(m, "Criterion", Cached(m, "Criterion")))
                  ELSE Await(m, "unit.fetch", fetchQ("Unit", m.s))
    [] l = "rc.Criterion" -> recordCached("Criterion", m)
    [] l = "criterionDone" ->
         Go("criteriaLoop",
            [m EXCEPT !.s.criteria = CriteriaSet(@, CurCriterion(m.s).i,
                                                 m.s.loc["Criterion"]),
                      !.s.loc["Criterion"] = NoRow,
                      !.s.ci = @ + 1])
    [] l = "groupLoop" ->
         IF m.s.g > Len(Payload(m.s.p).data)
           THEN Return(m)
           ELSE IF IsCached(m, "Run")
                  THEN Go("afterRun", Bind(m, "Run", Cached(m, "Run")))
                  ELSE recordCached("Executor", m)
    [] l = "rc.Suite" -> recordCached("Suite", m)
    [] l = "rc.Benchmark" -> recordCached("Benchmark", m)
    [] l = "rc.Run" -> recordCached("Run", m)
    [] l = "afterRun" ->
         IF m.s.kind = "meta"
           THEN Go("groupLoop", NextGroup(m))
           ELSE IF CurGroup(m.s).hasD
                  THEN Await(m, "avail",
                             Query("avail", "fetchAvailableMeasurements", "",
                                   <<m.s.loc["Trial"].id>>, <<>>, <<>>))
                  ELSE Go("profiles", m)
    [] l = "residual" ->
         IF Len(m.s.batchedValues) >= batch10
           THEN AwaitMeasurement(
                  [m EXCEPT !.s.rest = SubSeq(m.s.batchedValues, batch10 + 1,
                                              Len(m.s.batchedValues)),
                            !.s.batchedValues = SubSeq(@, 1, batch10)],
                  "meas10", "insertMeasurement10",
                  SubSeq(m.s.batchedValues, 1, batch10), TRUE)
           ELSE recordMeasurementsFromBatch(
                  [m EXCEPT !.s.fb = m.s.batchedValues, !.s.fbFrom = "final",
                            !.s.fbRec = 0])
    [] l = "profiles" ->
         IF CurGroup(m.s).hasP
           THEN Go("profileLoop", [m EXCEPT !.s.pi = 1, !.s.pRec = 0])
           ELSE Go("groupLoop", NextGroup(m))
    [] l = "profileLoop" ->
         IF m.s.pi > Len(CurGroup(m.s).p)
           THEN Go("groupLoop",
                   NextGroup([m EXCEPT !.s.recordedProfiles = @ + m.s.pRec]))
           ELSE Await(m, "profile",
                      Query("insProfile", "insertProfile", "", <<>>, <<>>,
                            <<<<m.s.loc["Run"].id, m.s.loc["Trial"].id,
                                CurGroup(m.s).p[m.s.pi].in,
                                CurGroup(m.s).p[m.s.pi].nit,
                                CurGroup(m.s).p[m.s.pi].d>>>>))
    [] OTHER -> Return(m)

\* the task runs until it awaits, returns or fails
RECURSIVE Run(_)
Run(m) == IF m.pc = "" THEN m ELSE Run(Step(m))

\* the task resumes with the result (or the error) of the statement it awaited
Continue(m) ==
  LET s == m.s
      res == m.s.res
  IN
  CASE s.lbl = "rc.fetch" ->
         IF ~res.ok THEN Throw(m, res.code)
         ELSE IF res.rowCount = 0
           THEN Await(m, "rc.insert", insertQ(s.e, s))
           ELSE recordCachedReturn(m, res.rows)
    [] s.lbl = "rc.insert" ->
         IF res.ok THEN recordCachedReturn(m, res.rows)
         ELSE recordCachedCatch(m, res)
    [] s.lbl = "rc.refetch" ->
         IF ~res.ok THEN Throw(m, res.code)
         ELSE IF res.rowCount = 0
           THEN Throw(m, s.err)
           ELSE [recordCachedReturn(m, res.rows) EXCEPT
                   !.s.raced = IF s.err = "23505" THEN s.e ELSE ""]
    [] s.lbl = "unit.fetch" ->
         IF ~res.ok THEN Throw(m, res.code)
         ELSE IF res.rowCount = 0
           THEN Await(m, "unit.insert", insertQ("Unit", s))
           ELSE Go("rc.Criterion", m)
    [] s.lbl = "unit.insert" ->
         IF ~res.ok THEN Throw(m, res.code) ELSE Go("rc.Criterion", m)
    [] s.lbl = "avail" ->
         IF ~res.ok THEN Throw(m, res.code)
         ELSE recordMeasurements(
                [m EXCEPT !.s.availableMs = AvailableMs(res.rows),
                          !.s.pos = 1, !.s.batchedValues = <<>>,
                          !.s.batchedMs = 0, !.s.mRec = 0, !.s.sent = <<>>,
                          !.s.plan = <<>>, !.s.resent = <<>>, !.s.uq = 0,
                          !.s.uqB = <<>>, !.s.uqS = <<>>])
    [] s.lbl = "measN" ->
         IF res.ok
           THEN recordMeasurements([m EXCEPT !.s.mRec = @ + res.rowCount,
                                             !.s.batchedValues = <<>>,
                                             !.s.batchedMs = 0])
           ELSE IF isUniqueViolationError(res)
             THEN recordMeasurementsFromBatch(
                    [m EXCEPT !.s.fb = s.batchedValues, !.s.fbFrom = "N",
                              !.s.fbRec = 0])
             ELSE Throw(m, res.code)
    [] s.lbl = "meas10" ->
         IF res.ok
           THEN Go("residual", [m EXCEPT !.s.mRec = @ + res.rowCount,
                                         !.s.batchedValues = s.rest])
           ELSE IF isUniqueViolationError(res)
             THEN recordMeasurementsFromBatch(
                    [m EXCEPT !.s.fb = s.batchedValues, !.s.fbFrom = "10",
                              !.s.fbRec = 0])
             ELSE Go("residual", [m EXCEPT !.s.batchedValues = s.rest])
    [] s.lbl = "single" ->
         IF res.ok
           THEN recordMeasurementsFromBatch([m EXCEPT !.s.fbRec = @ + res.rowCount,
                                                      !.s.fb = Tail(@)])
           ELSE IF isUniqueViolationError(res)
             THEN recordMeasurementsFromBatch([m EXCEPT !.s.fb = Tail(@)])
             ELSE Throw(m, res.code)
    [] OTHER ->  \* "profile"
         IF ~res.ok THEN Throw(m, res.code)
         ELSE Go("profileLoop", [m EXCEPT !.s.pRec = @ + res.rowCount,
                                          !.s.pi = @ + 1])

----------------------------------------------------------------------------
(* Actions *)

Init ==
  /\ tbl = [e \in Entities |-> {}]
  /\ measurement = {}
  /\ profileData = {}
  /\ cache = [e \in CachedEntities |-> <<>>]
  /\ req = [r \in Slots |-> IdleReq]
  /\ tokens = <<NewToken(cacheInvalidationDelay)>>
  /\ statsValid = 1
  /\ updater = NewUpdater(TRUE)
  /\ calls = 0
  /\ last = [kind |-> "", p |-> "", status |-> ""]
  /\ faults = 0
  /\ timeline = {}
  /\ lastStats = <<>>
  /\ admin = NoAdmin
  /\ dash = NoDash

\* new Database(config, numBootstrapSamples, timelineEnabled): with the
\* timeline updater or without it
InitTimeline ==
  /\ tbl = [e \in Entities |-> {}]
  /\ measurement = {}
  /\ profileData = {}
  /\ cache = [e \in CachedEntities |-> <<>>]
  /\ req = [r \in Slots |-> IdleReq]
  /\ tokens = <<NewToken(cacheInvalidationDelay)>>
  /\ statsValid = 1
  /\ updater \in {NewUpdater(b) : b \in BOOLEAN}
  /\ calls = 0
  /\ last = [kind |-> "", p |-> "", status |-> ""]
  /\ faults = 0
  /\ timeline = {}
  /\ lastStats = <<>>
  /\ admin = NoAdmin
  /\ dash = NoDash

\* the values of the constructor's cacheInvalidationDelay, in milliseconds
CacheInvalidationDelays == {0, 1000}

\* new Database(config, numBootstrapSamples, timelineEnabled,
\* cacheInvalidationDelay), for each delay
InitToken ==
  /\ tbl = [e \in Entities |-> {}]
  /\ measurement = {}
  /\ profileData = {}
  /\ cache = [e \in CachedEntities |-> <<>>]
  /\ req = [r \in Slots |-> IdleReq]
  /\ tokens \in {<<NewToken(d)>> : d \in CacheInvalidationDelays}
  /\ statsValid = 1
  /\ updater = NewUpdater(TRUE)
  /\ calls = 0
  /\ last = [kind |-> "", p |-> "", status |-> ""]
  /\ faults = 0
  /\ timeline = {}
  /\ lastStats = <<>>
  /\ admin = NoAdmin
  /\ dash = NoDash

Finished(s) == s.status \in {"done", "failed"}

\* the shared state after task r ran to m
Publish(r, m) ==
  /\ req' = [req EXCEPT ![r] = m.s]
  /\ cache' = m.cache
  /\ updater' = m.upd
  /\ last' = IF Finished(m.s)
               THEN [kind |-> m.s.kind, p |-> m.s.p, status |-> m.s.status]
               ELSE last

Waiting(r) == req[r].status = "run" /\ ~req[r].hasRes

\* the store answers the statement of task r
Answer(r, res) ==
  [req EXCEPT ![r].res = res, ![r].hasRes = TRUE]

\* a request arrives: recordAllData(data, suppress) or recordMetaDataAndRuns(data),
\* run up to its first await
Call(r, kind, pn, sup) ==
  /\ req[r].status # "run"
  /\ \A r2 \in Slots : r2 < r => req[r2].status = "run"
  \* bound: requests that overlap in time carry the same payload
  /\ \A r2 \in Slots : req[r2].status = "run" => req[r2].p = pn
  /\ LET tk == IF kind = "all"
                 THEN invalidateAndNew(tokens, statsValid)
                 ELSE [tokens |-> tokens, ret |-> statsValid]
         s0 == [IdleReq EXCEPT
                  !.status = "run", !.kind = kind, !.p = pn, !.suppress = sup,
                  !.callNo = calls + 1,
                  !.repeat = /\ last = [kind |-> "all", p |-> pn, status |-> "done"]
                             /\ kind = "all"
                             /\ \A r2 \in Slots : req[r2].status # "run",
                  !.retry = /\ last = [kind |-> "all", p |-> pn, status |-> "failed"]
                            /\ kind = "all"
                            /\ \A r2 \in Slots : req[r2].status # "run"]
     IN /\ Publish(r, Run([s |-> s0, cache |-> cache, upd |-> updater,
                            pc |-> "recordMetaData"]))
        /\ tokens' = tk.tokens
        /\ statsValid' = tk.ret
  /\ calls' = calls + 1
  /\ UNCHANGED <<dash, admin, timeline, lastStats, tbl, measurement, profileData, faults>>

\* the store executes a SELECT
DbSelect(r) ==
  /\ Waiting(r)
  /\ req[r].q.t \in {"fetch", "avail"}
  /\ LET q == req[r].q
         rows == IF q.t = "fetch" THEN SelectByKey(q.e, q.key)
                 ELSE AvailableRows(measurement, q.key[1])
     IN req' = [Answer(r, Result(Cardinality(rows), rows)) EXCEPT
                  ![r].snapshot = IF q.t = "avail" THEN measurement ELSE @]
  /\ UNCHANGED <<dash, admin, timeline, lastStats, tbl, measurement, profileData, cache, tokens, statsValid, updater,
                 calls, last, faults>>

\* the store reports the new row of a metadata table and does not keep it
DbInsertRow_lost(r) ==
  /\ Waiting(r)
  /\ req[r].q.t = "insert"
  /\ LET q == req[r].q IN
     IF UniqueViolation(q.e, q.key)
       THEN /\ req' = Answer(r, Failure("23505"))
            /\ tbl' = tbl
       ELSE /\ req' = [Answer(r, Result(1, {NewRow(q.e, q.key, q.attrs)})) EXCEPT
                         ![r].addedMeta = IF req[r].repeat THEN @ + 1 ELSE @]
            /\ tbl' = IF q.e = "Run" THEN tbl
                      ELSE [tbl EXCEPT ![q.e] = @ \cup {NewRow(q.e, q.key, q.attrs)}]
  /\ UNCHANGED <<dash, admin, timeline, lastStats, measurement, profileData, cache, tokens, statsValid, updater,
                 calls, last, faults>>

\* the store executes a single-row INSERT into a metadata table
DbInsertRow(r) ==
  /\ Waiting(r)
  /\ req[r].q.t = "insert"
  /\ LET q == req[r].q IN
     IF UniqueViolation(q.e, q.key)
       THEN /\ req' = Answer(r, Failure("23505"))
            /\ tbl' = tbl
       ELSE /\ req' = [Answer(r, Result(1, {NewRow(q.e, q.key, q.attrs)})) EXCEPT
                         ![r].addedMeta = IF req[r].repeat THEN @ + 1 ELSE @]
            /\ tbl' = [tbl EXCEPT ![q.e] = @ \cup {NewRow(q.e, q.key, q.attrs)}]
  /\ UNCHANGED <<dash, admin, timeline, lastStats, measurement, profileData, cache, tokens, statsValid, updater,
                 calls, last, faults>>

\* the store executes an INSERT INTO Measurement
DbInsertMeasurement(r) ==
  /\ Waiting(r)
  /\ req[r].q.t = "insMeas"
  /\ LET st == InsertMeasurementRows([table |-> measurement, n |-> 0], req[r].q.rows) IN
       /\ measurement' = st.table
       /\ req' = [Answer(r, Result(st.n, {})) EXCEPT
                    ![r].addedM = @ + Cardinality(st.table \ measurement)]
  /\ UNCHANGED <<dash, admin, timeline, lastStats, tbl, profileData, cache, tokens, statsValid, updater, calls, last,
                 faults>>

\* the store executes an INSERT INTO ProfileData
DbInsertProfile(r) ==
  /\ Waiting(r)
  /\ req[r].q.t = "insProfile"
  /\ LET st == InsertProfileRow(profileData, req[r].q.rows[1]) IN
       /\ profileData' = st.table
       /\ req' = [Answer(r, Result(st.n, {})) EXCEPT
                    ![r].addedP = @ + Cardinality(st.table \ profileData)]
  /\ UNCHANGED <<dash, admin, timeline, lastStats, tbl, measurement, cache, tokens, statsValid, updater, calls, last,
                 faults>>

\* the task resumes and runs to its next await, its return or its failure
Resume(r) ==
  /\ req[r].status = "run"
  /\ req[r].hasRes
  /\ Publish(r, Run(Continue([s |-> [req[r] EXCEPT !.raced = ""], cache |-> cache,
                                 upd |-> updater, pc |-> ""])))
  /\ UNCHANGED <<dash, admin, timeline, lastStats, tbl, measurement, profileData, tokens, statsValid, calls, faults>>

\* the store fails the statement with an error that is no unique violation
DbFail(r) ==
  /\ Waiting(r)
  /\ faults < MaxFaults
  /\ faults' = faults + 1
  /\ req' = [Answer(r, Failure("08006")) EXCEPT
               ![r].insErr = @ \/ req[r].q.t = "insert",
               ![r].measErr = @ \/ req[r].q.t = "insMeas"]
  /\ UNCHANGED <<dash, admin, timeline, lastStats, tbl, measurement, profileData, cache, tokens, statsValid, updater,
                 calls, last>>

\* the store raises a unique violation on a measurement statement (the
\* handlers of recordMeasurements and recordMeasurementsFromBatch expect it)
DbRaiseUnique(r) ==
  /\ Waiting(r)
  /\ req[r].q.t = "insMeas"
  /\ req[r].uq < MaxUnique
  /\ req' = [Answer(r, Failure("23505")) EXCEPT
               ![r].uq = @ + 1,
               ![r].uqB = IF req[r].lbl \in {"measN", "meas10"}
                            THEN @ \o req[r].q.rows ELSE @,
               ![r].uqS = IF req[r].lbl = "single" THEN @ \o req[r].q.rows ELSE @]
  /\ UNCHANGED <<dash, admin, timeline, lastStats, tbl, measurement, profileData, cache, tokens, statsValid, updater,
                 calls, last, faults>>

\* the consumer drains: it swaps pending with an empty map
Drain ==
  /\ updater.triggered
  /\ updater.jobs = <<>>
  /\ updater.pending # <<>>
  /\ updater' = [updater EXCEPT !.jobs = updater.pending, !.pending = <<>>]
  /\ UNCHANGED <<dash, admin, tbl, measurement, profileData, cache, req, tokens, statsValid,
                 calls, last, faults, timeline, lastStats>>

\* the values of the Measurement rows of key k = (trialId, runId, criterionId),
\* by invocation and iteration
StoredSample(k) ==
  LET rows == {x \in measurement : <<x[2], x[1], x[5]>> = k}
      before(x) == {y \in rows : y[3] < x[3] \/ (y[3] = x[3] /\ y[4] < x[4])}
  IN [i \in 1..Cardinality(rows) |->
        (CHOOSE x \in rows : Cardinality(before(x)) = i - 1)[6]]

\* the consumer works on the drained key k: it computes the statistics, of the
\* sample stored for the key or of the values it was handed, upserts the
\* Timeline row and deletes the job
Compute(k, stored) ==
  /\ k \in DOMAIN updater.jobs
  /\ stored => StoredSample(k) # <<>>
  /\ LET stats == SummaryStatistics(IF stored THEN StoredSample(k)
                                               ELSE updater.jobs[k])
     IN /\ timeline' = recordTimeline(timeline, k[2], k[1], k[3], stats).table
        /\ lastStats' = [x \in DOMAIN lastStats \cup {k} |->
                           IF x = k THEN stats ELSE lastStats[x]]
  /\ updater' = [updater EXCEPT
                   !.jobs = [x \in DOMAIN updater.jobs \ {k} |-> updater.jobs[x]],
                   !.queue = [x \in DOMAIN updater.queue \ {k} |-> updater.queue[x]],
                   !.fromValues = @ \/ ~stored]
  /\ UNCHANGED <<dash, admin, tbl, measurement, profileData, cache, req, tokens, statsValid,
                 calls, last, faults>>

\* the promise resolves as soon as pending is empty, jobs in flight or not
Quiesce_early ==
  /\ updater.triggered
  /\ updater.pending = <<>>
  /\ updater' = [updater EXCEPT !.triggered = FALSE]
  /\ UNCHANGED <<dash, admin, tbl, measurement, profileData, cache, req, tokens, statsValid,
                 calls, last, faults, timeline, lastStats>>

\* the consumer finds nothing to drain: the quiescence promise resolves
Quiesce ==
  /\ updater.triggered
  /\ updater.jobs = <<>>
  /\ updater.pending = <<>>
  /\ updater' = [updater EXCEPT !.triggered = FALSE]
  /\ UNCHANGED <<dash, admin, tbl, measurement, profileData, cache, req, tokens, statsValid,
                 calls, last, faults, timeline, lastStats>>

\* getExperimentByNames, the statement: SELECT e.* FROM Experiment e JOIN
\* Project p ON p.id = e.projectId WHERE p.name = $1 AND e.name = $2
fetchExperimentByProjectNameExpName(projectName, experimentName) ==
  {e \in tbl["Experiment"] :
     /\ e.key[2] = experimentName
     /\ \E p \in tbl["Project"] : p.id = e.key[1] /\ p.key = <<projectName>>}

\* the checks of reportCompletion, endTime first
reportCompletion_endTimeFirst(data, exp) ==
  IF data.endTime = ""
    THEN [op |-> "reportCompletion", state |-> "failed", args |-> data,
          exp |-> NoRow, ret |-> <<>>, err |-> "without endTime"]
  ELSE IF exp = NoRow
    THEN [op |-> "reportCompletion", state |-> "failed", args |-> data,
          exp |-> NoRow, ret |-> <<>>, err |-> "no experiment found"]
  ELSE [op |-> "reportCompletion", state |-> "update", args |-> data,
        exp |-> exp, ret |-> <<>>, err |-> ""]

\* reportCompletion from the result exp of getExperimentByNames (NoRow:
\* undefined) up to the await of recordExperimentCompletion
reportCompletion(data, exp) ==
  IF exp = NoRow
    THEN [op |-> "reportCompletion", state |-> "failed", args |-> data,
          exp |-> NoRow, ret |-> <<>>, err |-> "no experiment found"]
  ELSE IF data.endTime = ""
    THEN [op |-> "reportCompletion", state |-> "failed", args |-> data,
          exp |-> NoRow, ret |-> <<>>, err |-> "without endTime"]
  ELSE [op |-> "reportCompletion", state |-> "update", args |-> data,
        exp |-> exp, ret |-> <<>>, err |-> ""]

\* UPDATE Trial SET endTime = $2 WHERE expId = $1
recordExperimentCompletion_overwrite(table, expId, endTime) ==
  {IF t.key[4] = expId THEN [t EXCEPT !.attrs[2] = endTime] ELSE t : t \in table}

\* recordExperimentCompletion, the statement: UPDATE Trial SET endTime = $2
\* WHERE expId = $1 AND endTime IS NULL ("" is NULL)
recordExperimentCompletion(table, expId, endTime) ==
  {IF t.key[4] = expId /\ t.attrs[2] = ""
     THEN [t EXCEPT !.attrs[2] = endTime] ELSE t : t \in table}

\* no completion call awaits a statement
AdminAtRest == admin.state \notin {"fetchExp", "update", "fetchProject"}

\* reportCompletion(data) up to its first await: getExperimentByNames answers
\* from the cache of experiments or sends its statement
ReportCompletion(data) ==
  /\ AdminAtRest
  /\ LET k == data.projectName \o "::" \o data.experimentName IN
     admin' = IF k \in DOMAIN cache["Experiment"]
                THEN reportCompletion(data, cache["Experiment"][k])
                ELSE [op |-> "reportCompletion", state |-> "fetchExp",
                      args |-> data, exp |-> NoRow, ret |-> <<>>, err |-> ""]
  /\ UNCHANGED <<dash, tbl, measurement, profileData, cache, req, tokens, statsValid,
                 updater, calls, last, faults, timeline, lastStats>>

\* the store executes the statement of getExperimentByNames, and
\* reportCompletion goes on with rows[0], or undefined
CompletionFetch ==
  /\ admin.state = "fetchExp"
  /\ LET rows == fetchExperimentByProjectNameExpName(admin.args.projectName,
                                                     admin.args.experimentName)
     IN admin' = reportCompletion(admin.args,
                                  IF rows = {} THEN NoRow ELSE CHOOSE e \in rows : TRUE)
  /\ UNCHANGED <<dash, tbl, measurement, profileData, cache, req, tokens, statsValid,
                 updater, calls, last, faults, timeline, lastStats>>

\* the store executes setTrialEndTime, and reportCompletion returns exp
CompletionUpdate ==
  /\ admin.state = "update"
  /\ tbl' = [tbl EXCEPT !["Trial"] =
               recordExperimentCompletion(@, admin.exp.id, admin.args.endTime)]
  /\ admin' = [admin EXCEPT !.state = "done", !.ret = <<admin.exp>>]
  /\ UNCHANGED <<dash, measurement, profileData, cache, req, tokens, statsValid,
                 updater, calls, last, faults, timeline, lastStats>>

\* clearCache(): every interning cache is emptied
ClearCache ==
  /\ cache' = [e \in CachedEntities |-> <<>>]
  /\ UNCHANGED <<dash, admin, tbl, measurement, profileData, req, tokens, statsValid,
                 updater, calls, last, faults, timeline, lastStats>>

\* setProjectBaseBranch, the statement: UPDATE Project SET baseBranch = $2
\* WHERE name = $1 (the table afterwards and the statement's rowCount)
setProjectBaseBranch(table, projectName, baseBranch) ==
  [table |-> {IF p.key = <<projectName>> THEN [p EXCEPT !.attrs[2] = baseBranch]
                                          ELSE p : p \in table},
   n |-> Cardinality({p \in table : p.key = <<projectName>>})]

\* setProjectBaseBranch(projectName, baseBranch): its statement, and the
\* return of rowCount === 1
SetProjectBaseBranch(projectName, baseBranch) ==
  /\ AdminAtRest
  /\ LET st == setProjectBaseBranch(tbl["Project"], projectName, baseBranch) IN
       /\ tbl' = [tbl EXCEPT !["Project"] = st.table]
       /\ admin' = [op |-> "setProjectBaseBranch", state |-> "done",
                    args |-> [projectName |-> projectName, baseBranch |-> baseBranch],
                    exp |-> NoRow, ret |-> <<st.n = 1>>, err |-> ""]
  /\ UNCHANGED <<dash, measurement, profileData, cache, req, tokens, statsValid,
                 updater, calls, last, faults, timeline, lastStats>>

\* lower() of the store, on the slugs and the arguments that occur
Lower(str) ==
  CASE str = "Proj" -> "proj" [] str = "My-Proj" -> "my-proj" [] OTHER -> str

\* the order of the startTime values
Timestamp(t) == CASE t = "t1" -> 1 [] t = "t2" -> 2 [] OTHER -> 3

\* the rows of Project p JOIN Experiment e JOIN Trial t JOIN Source s
Joined ==
  {x \in tbl["Project"] \X tbl["Experiment"] \X tbl["Trial"] \X tbl["Source"] :
     /\ x[2].key[1] = x[1].id
     /\ x[3].key[4] = x[2].id
     /\ x[3].attrs[1] = x[4].id}

\* revisionsExistInProject, the statement: SELECT DISTINCT p.id, e.name, s.id,
\* s.commitid, ... WHERE lower(p.slug) = lower($1) AND s.commitid = $2
\* OR s.commitid = $3
fetchRevisionsInProjectByCommitIds(projectSlug, base, change) ==
  {[pid |-> x[1].id, name |-> x[2].key[2], id |-> x[4].id,
    commitid |-> x[4].key[1], branchortag |-> x[4].attrs[1]] :
     x \in {y \in Joined :
              \/ /\ Lower(y[1].attrs[1]) = Lower(projectSlug)
                 /\ y[4].key[1] = base
              \/ y[4].key[1] = change}}

\* revisionsExistInProject after its await: the results it can return for the
\* rows of the statement, which come in any order, or the TypeError of
\* baseData.commitmessage or changeData.commitmessage on undefined
revisionsExistInProject(rows, base, change) ==
  IF Cardinality(rows) >= 2
    THEN LET baseRows == {r \in rows : r.commitid = base}
             changeRows == {r \in rows : r.commitid # base /\ r.commitid = change}
         IN IF baseRows = {} \/ changeRows = {}
              THEN {[state |-> "failed", ret |-> <<>>, err |-> "TypeError"]}
              ELSE {[state |-> "done",
                     ret |-> <<[dataFound |-> TRUE, base |-> b, change |-> c]>>,
                     err |-> ""] : b \in baseRows, c \in changeRows}
    ELSE {[state |-> "done", ret |-> <<[dataFound |-> FALSE]>>, err |-> ""]}

\* revisionsExistInProject(projectSlug, base, change): its statement and what
\* it returns
RevisionsExistInProject(projectSlug, base, change) ==
  /\ AdminAtRest
  /\ \E res \in revisionsExistInProject(
                   fetchRevisionsInProjectByCommitIds(projectSlug, base, change),
                   base, change) :
       admin' = [op |-> "revisionsExistInProject", state |-> res.state,
                 args |-> [projectSlug |-> projectSlug, base |-> base,
                           change |-> change],
                 exp |-> NoRow, ret |-> res.ret, err |-> res.err]
  /\ UNCHANGED <<dash, tbl, measurement, profileData, cache, req, tokens, statsValid,
                 updater, calls, last, faults, timeline, lastStats>>

\* the groups of fetchBaselineCommit: GROUP BY e.id, s.id over the joined rows
\* with p.name = $1, s.branchOrTag = p.baseBranch, s.commitId <> $2 and
\* p.baseBranch IS NOT NULL
BaselineGroups(projectName, currentCommitId) ==
  {<<x[2].id, x[4]>> :
     x \in {y \in Joined : /\ y[1].key = <<projectName>>
                           /\ y[4].attrs[1] = y[1].attrs[2]
                           /\ y[4].key[1] # currentCommitId
                           /\ y[1].attrs[2] # ""}}

\* min(t.startTime) of the group
firstStart(g) ==
  LET ts == {Timestamp(t.key[3]) : t \in {u \in tbl["Trial"] :
                                           u.key[4] = g[1] /\ u.attrs[1] = g[2].id}}
  IN CHOOSE m \in ts : \A n \in ts : m <= n

\* the group's latest start instead of its first
fetchBaselineCommit_lastStart(projectName, currentCommitId) ==
  LET lastStart(g) == Max({Timestamp(t.key[3]) : t \in {u \in tbl["Trial"] :
                                u.key[4] = g[1] /\ u.attrs[1] = g[2].id}})
      rows == {[source |-> g[2], firstStart |-> lastStart(g)] :
                 g \in BaselineGroups(projectName, currentCommitId)}
  IN {r \in rows : \A r2 \in rows : r2.firstStart <= r.firstStart}

\* getBaselineCommit, the statement: SELECT DISTINCT s.*, min(t.startTime) as
\* firstStart ... ORDER BY firstStart DESC LIMIT 1 (the rows that can come first)
fetchBaselineCommit(projectName, currentCommitId) ==
  LET rows == {[source |-> g[2], firstStart |-> firstStart(g)] :
                 g \in BaselineGroups(projectName, currentCommitId)}
  IN {r \in rows : \A r2 \in rows : r2.firstStart <= r.firstStart}

\* getBaselineCommit(projectName, currentCommitId): its statement, and the
\* return of rows[0], or undefined
GetBaselineCommit(projectName, currentCommitId) ==
  /\ AdminAtRest
  /\ LET rows == fetchBaselineCommit(projectName, currentCommitId)
         args == [projectName |-> projectName, currentCommitId |-> currentCommitId]
     IN IF rows = {}
          THEN admin' = [op |-> "getBaselineCommit", state |-> "done", args |-> args,
                         exp |-> NoRow, ret |-> <<>>, err |-> ""]
          ELSE \E r \in rows :
                 admin' = [op |-> "getBaselineCommit", state |-> "done",
                           args |-> args, exp |-> NoRow, ret |-> <<r>>, err |-> ""]
  /\ UNCHANGED <<dash, tbl, measurement, profileData, cache, req, tokens, statsValid,
                 updater, calls, last, faults, timeline, lastStats>>

\* null in a column of PlotData and in baseTimestamp / changeTimestamp; a
\* number x is <<x>>
Null == <<>>

\* an array of PlotData after push(null)
pushNull(col) == Append(col, Null)

\* the other triple gets no null
pushRow_noNull(r, row, baseBranchName) ==
  LET r1 == [r EXCEPT !.data[1] = Append(@, row.starttime),
                      !.sourceIds = Append(@, row.sourceid)]
  IN IF baseBranchName = "" \/ row.branch = baseBranchName
       THEN [r1 EXCEPT !.baseTimestamp = IF baseBranchName # "" /\ row.iscurrent
                                           THEN <<row.starttime>> ELSE @,
                       !.data[2] = Append(@, <<row.bci95low>>),
                       !.data[3] = Append(@, <<row.median>>),
                       !.data[4] = Append(@, <<row.bci95up>>)]
       ELSE [r1 EXCEPT !.changeTimestamp = IF row.iscurrent THEN <<row.starttime>>
                                             ELSE @,
                       !.data[5] = Append(@, <<row.bci95low>>),
                       !.data[6] = Append(@, <<row.median>>),
                       !.data[7] = Append(@, <<row.bci95up>>)]

\* convertToTimelineResponse, the body of its loop for one row; sourceid is
\* the integer column s.id, which parseInt gives back
pushRow(r, row, baseBranchName) ==
  LET r1 == [r EXCEPT !.data[1] = Append(@, row.starttime),
                      !.sourceIds = Append(@, row.sourceid)]
  IN IF baseBranchName = "" \/ row.branch = baseBranchName
       THEN LET r2 == [r1 EXCEPT
                         !.baseTimestamp = IF baseBranchName # "" /\ row.iscurrent
                                             THEN <<row.starttime>> ELSE @,
                         !.data[2] = Append(@, <<row.bci95low>>),
                         !.data[3] = Append(@, <<row.median>>),
                         !.data[4] = Append(@, <<row.bci95up>>)]
            IN IF baseBranchName # ""
                 THEN [r2 EXCEPT !.data[5] = pushNull(@), !.data[6] = pushNull(@),
                                 !.data[7] = pushNull(@)]
                 ELSE r2
       ELSE LET r2 == [r1 EXCEPT
                         !.changeTimestamp = IF row.iscurrent THEN <<row.starttime>>
                                               ELSE @,
                         !.data[2] = pushNull(@), !.data[3] = pushNull(@),
                         !.data[4] = pushNull(@)]
            IN IF baseBranchName # ""
                 THEN [r2 EXCEPT !.data[5] = Append(@, <<row.bci95low>>),
                                 !.data[6] = Append(@, <<row.median>>),
                                 !.data[7] = Append(@, <<row.bci95up>>)]
                 ELSE r2

RECURSIVE convertRows(_, _, _, _)
\* the loop of convertToTimelineResponse over rows[i..]
convertRows(r, rows, i, baseBranchName) ==
  IF i > Len(rows) THEN r
  ELSE convertRows(pushRow(r, rows[i], baseBranchName), rows, i + 1, baseBranchName)

\* convertToTimelineResponse(rows, baseBranchName, changeBranchName); a branch
\* name that is null is ""
convertToTimelineResponse(rows, baseBranchName, changeBranchName) ==
  convertRows([baseBranchName |-> baseBranchName,
               changeBranchName |-> changeBranchName,
               baseTimestamp |-> Null, changeTimestamp |-> Null,
               data |-> IF baseBranchName # "" THEN [i \in 1..7 |-> <<>>]
                                               ELSE [i \in 1..4 |-> <<>>],
               sourceIds |-> <<>>],
              rows, 1, baseBranchName)

\* getTimelineData / getTimelineForRun from the result of their timeline
\* statement on: no row gives null, else the converted response
ConvertToTimelineResponse(rows, baseBranchName, changeBranchName) ==
  /\ AdminAtRest
  /\ admin' = [op |-> "convertToTimelineResponse", state |-> "done",
               args |-> [rows |-> rows, baseBranchName |-> baseBranchName,
                         changeBranchName |-> changeBranchName],
               exp |-> NoRow,
               ret |-> IF Len(rows) < 1 THEN <<>>
                       ELSE <<convertToTimelineResponse(rows, baseBranchName,
                                                        changeBranchName)>>,
               err |-> ""]
  /\ UNCHANGED <<dash, tbl, measurement, profileData, cache, req, tokens, statsValid,
                 updater, calls, last, faults, timeline, lastStats>>

\* the filter is added to the text and not to the name
addFilter_unnamed(q, value, column, letters) ==
  IF value # ""
    THEN LET parameters == Append(q.values, value) IN
         [name |-> q.name,
          text |-> Append(q.text, <<column, Len(parameters)>>),
          values |-> parameters]
    ELSE q

\* constructTimelineQuery: if (request.x) { parameters.push(request.x);
\* additionalParameters += 'AND r.column = $' + parameters.length + ' ';
\* storedQueryName += letters }; the text is the list of the added clauses,
\* the rest of the statement being the same for every request
addFilter(q, value, column, letters) ==
  IF value # ""
    THEN LET parameters == Append(q.values, value) IN
         [name |-> q.name \o letters,
          text |-> Append(q.text, <<column, Len(parameters)>>),
          values |-> parameters]
    ELSE q

\* constructTimelineQuery(projectName, branches, request)
constructTimelineQuery(projectName, branches, request) ==
  LET q0 == [name |-> "get-timeline-data-bpbs-", text |-> <<>>,
             values |-> <<request.baseline, request.change,
                          branches.baseBranchName, branches.changeBranchName,
                          projectName, request.b, request.s, request.e>>]
      q1 == addFilter(q0, request.v, "r.varValue", "v")
      q2 == addFilter(q1, request.c, "r.cores", "c")
      q3 == addFilter(q2, request.i, "r.inputSize", "i")
  IN addFilter(q3, request.ea, "r.extraArgs", "ea")

\* getTimelineData builds the statement for a request
ConstructTimelineQuery(request) ==
  /\ AdminAtRest
  /\ admin' = [op |-> "constructTimelineQuery", state |-> "done", args |-> request,
               exp |-> NoRow,
               ret |-> <<constructTimelineQuery(
                           "proj", [baseBranchName |-> "main",
                                    changeBranchName |-> "feature"], request)>>,
               err |-> ""]
  /\ UNCHANGED <<dash, tbl, measurement, profileData, cache, req, tokens, statsValid,
                 updater, calls, last, faults, timeline, lastStats>>

\* what getCached returns: a row, undefined or null
Returned(kind, row) == [kind |-> kind, row |-> row]

\* getCached after its await: result[0] of a QueryResult, which has no such
\* property, when the statement returned one row, and null otherwise
getCached(result) ==
  IF result.rowCount = 1 THEN Returned("undefined", NoRow) ELSE Returned("null", NoRow)

\* getProjectByName(projectName) up to the await of getCached: the cached row,
\* or fetchProjectByName is sent
GetProjectByName(projectName) ==
  /\ AdminAtRest
  /\ admin' = IF projectName \in DOMAIN cache["Project"]
                THEN [op |-> "getProjectByName", state |-> "done",
                      args |-> [projectName |-> projectName], exp |-> NoRow,
                      ret |-> <<Returned("row", cache["Project"][projectName])>>,
                      err |-> ""]
                ELSE [op |-> "getProjectByName", state |-> "fetchProject",
                      args |-> [projectName |-> projectName], exp |-> NoRow,
                      ret |-> <<>>, err |-> ""]
  /\ UNCHANGED <<dash, tbl, measurement, profileData, cache, req, tokens, statsValid,
                 updater, calls, last, faults, timeline, lastStats>>

\* the store executes fetchProjectByName and getCached returns
GetCachedFetch ==
  /\ admin.state = "fetchProject"
  /\ LET rows == SelectByKey("Project", <<admin.args.projectName>>) IN
     admin' = [admin EXCEPT !.state = "done",
                            !.ret = <<getCached(Result(Cardinality(rows), rows))>>]
  /\ UNCHANGED <<dash, tbl, measurement, profileData, cache, req, tokens, statsValid,
                 updater, calls, last, faults, timeline, lastStats>>

\* String.prototype.substr(from, length), on a string given as its characters
substr(str, from, length) ==
  SubSeq(str, from + 1, IF Len(str) < from + length THEN Len(str) ELSE from + length)

\* Map.set(key, value)
MapSet(map, key, value) ==
  [k \in DOMAIN map \cup {key} |-> IF k = key THEN value ELSE map[k]]

\* a dashCompare that starts a generation again once the last one has ended
startsGeneration_again(map, reportId) ==
  reportId \notin DOMAIN map \/ ~map[reportId].inProgress

\* the condition under which dashCompare starts a generation:
\* !prevGenerationDetails
startsGeneration(map, reportId) == reportId \notin DOMAIN map

\* dashCompare(base, change, project, dbConfig, db)
DashCompare(base, change, project) ==
  /\ dash.calls < MaxCompareCalls
  /\ LET \* `${project}-${baselineHash6}-${changeHash6}`
         reportId == <<project, substr(base, 0, 6), substr(change, 0, 6)>>
         data == [project |-> project,
                  baselineHash6 |-> substr(base, 0, 6),
                  changeHash6 |-> substr(change, 0, 6),
                  report |-> <<>>, generatingReport |-> Undefined,
                  generationFailed |-> Undefined, stdout |-> Undefined,
                  stderr |-> Undefined, currentTime |-> 0]
         now == dash.calls + 1
         map == dash.reportGeneration
         n == IF reportId \in DOMAIN dash.started THEN dash.started[reportId] ELSE 0
     IN IF reportId \in DOMAIN dash.reports                   \* existsSync(reportFile)
          THEN dash' = [dash EXCEPT
                 !.calls = now,
                 !.data = [data EXCEPT !.report = dash.reports[reportId],
                                       !.generatingReport = "false"]]
          ELSE IF startsGeneration(map, reportId)
            THEN dash' = [dash EXCEPT
                   !.calls = now,
                   !.children = @ \cup {[reportId |-> reportId, base |-> base,
                                         change |-> change, n |-> n + 1]},
                   !.started = MapSet(@, reportId, n + 1),
                   !.reportGeneration =
                      MapSet(@, reportId,
                             [inProgress |-> TRUE, error |-> Undefined,
                              stdout |-> Undefined, stderr |-> Undefined]),
                   !.data = [data EXCEPT !.currentTime = now,
                                         !.generatingReport = "true"]]
            ELSE IF map[reportId].error \notin {Undefined, NoError}
              THEN dash' = [dash EXCEPT
                     !.calls = now,
                     !.data = [data EXCEPT !.currentTime = now,
                                           !.generationFailed = "true",
                                           !.stdout = map[reportId].stdout,
                                           !.stderr = map[reportId].stderr,
                                           !.generatingReport = "false"]]
              ELSE dash' = [dash EXCEPT
                     !.calls = now,
                     !.data = [data EXCEPT !.currentTime = now,
                                           !.generatingReport = "true"]]
  /\ UNCHANGED <<admin, tbl, measurement, profileData, cache, req, tokens,
                 statsValid, updater, calls, last, faults, timeline, lastStats>>

\* the subprocess knitr.R, run in resources/reports with the output name
\* `${reportId}.html`, writes its report
ChildWritesReport(c) ==
  /\ c \in dash.children
  /\ c.reportId \notin DOMAIN dash.reports
  /\ dash' = [dash EXCEPT !.reports = MapSet(@, c.reportId, <<c.base, c.change>>)]
  /\ UNCHANGED <<admin, tbl, measurement, profileData, cache, req, tokens,
                 statsValid, updater, calls, last, faults, timeline, lastStats>>

\* the subprocess has ended and the callback given to execFile runs, with
\* the error, stdout and stderr of o
ExecFileCallback(c, o) ==
  /\ c \in dash.children
  /\ dash' = [dash EXCEPT
       !.children = @ \ {c},
       !.reportGeneration =
          MapSet(@, c.reportId, [error |-> o.error, stdout |-> o.stdout,
                                 stderr |-> o.stderr, inProgress |-> FALSE]),
       !.completed = @ + 1]
  /\ UNCHANGED <<admin, tbl, measurement, profileData, cache, req, tokens,
                 statsValid, updater, calls, last, faults, timeline, lastStats>>

\* the callback of a timer of token i runs: setTimeout(() => this.valid = false)
TimerFires(i) ==
  /\ i \in DOMAIN tokens
  /\ tokens[i].timers # <<>>
  /\ tokens' = [tokens EXCEPT ![i].valid = FALSE, ![i].timers = Tail(@)]
  /\ UNCHANGED <<dash, admin, tbl, measurement, profileData, cache, req, statsValid, updater,
                 calls, last, faults, timeline, lastStats>>

\* the runs, trials and criteria recordTimeline is called for, and the
\* SummaryStatistics it is given
TimelineRuns == {1, 2}
TimelineTrials == {1}
TimelineCriteria == {1, 2}
StatsInputs ==
  {[min |-> 1, max |-> 9, standardDeviation |-> 2, mean |-> 5, median |-> 4,
    numberOfSamples |-> 3, bci95low |-> 3, bci95up |-> 6],
   [min |-> 2, max |-> 8, standardDeviation |-> 1, mean |-> 4, median |-> 5,
    numberOfSamples |-> 7, bci95low |-> 3, bci95up |-> 7],
   [min |-> 1, max |-> 9, standardDeviation |-> 3, mean |-> 6, median |-> 6,
    numberOfSamples |-> 7, bci95low |-> 4, bci95up |-> 8]}

\* recordTimeline(runId, trialId, criterion, stats): its one statement
RecordTimeline(runId, trialId, criterion, stats) ==
  LET k == <<runId, trialId, criterion>> IN
  /\ timeline' = recordTimeline(timeline, runId, trialId, criterion, stats).table
  /\ lastStats' = [x \in DOMAIN lastStats \cup {k} |->
                     IF x = k THEN stats ELSE lastStats[x]]
  /\ UNCHANGED <<dash, admin, tbl, measurement, profileData, cache, req, tokens, statsValid,
                 updater, calls, last, faults>>

\* the requests that arrive: <<operation, payload>>
Requests ==
  {<<"all", "small">>, <<"all", "big">>, <<"all", "mixed">>, <<"meta", "small">>}

\* the requests that arrive while the store may fail a statement
FaultRequests == {<<"all", "small">>, <<"all", "big">>}

Next ==
  \E r \in Slots :
    \/ (calls < MaxCalls /\ \E q \in Requests : Call(r, q[1], q[2], FALSE))
    \/ DbSelect(r)
    \/ DbInsertRow(r)
    \/ DbInsertMeasurement(r)
    \/ DbInsertProfile(r)
    \/ Resume(r)

NextFault ==
  \E r \in Slots :
    \/ (calls < MaxCalls /\ \E q \in FaultRequests : Call(r, q[1], q[2], FALSE))
    \/ DbSelect(r)
    \/ DbInsertRow(r)
    \/ DbInsertMeasurement(r)
    \/ DbInsertProfile(r)
    \/ Resume(r)
    \/ DbFail(r)

\* the requests that arrive one after the other, the store failing a statement
RetryRequests == {<<"all", "small">>, <<"all", "mixed">>, <<"all", "huge">>}

\* one request at a time: a client submits again after a failure
NextRetry ==
  \/ (calls < MaxCalls /\ \E q \in RetryRequests : Call(1, q[1], q[2], FALSE))
  \/ DbSelect(1)
  \/ DbInsertRow(1)
  \/ DbInsertMeasurement(1)
  \/ DbInsertProfile(1)
  \/ Resume(1)
  \/ DbFail(1)

\* the requests whose measurement statements the store answers with errors
BatchRequests == {<<"all", "small">>, <<"all", "big">>}

\* one request, the store raising errors on its measurement statements
NextBatch ==
  \/ (calls = 0 /\ \E q \in BatchRequests : Call(1, q[1], q[2], FALSE))
  \/ DbSelect(1)
  \/ DbInsertRow(1)
  \/ DbInsertMeasurement(1)
  \/ DbInsertProfile(1)
  \/ Resume(1)
  \/ DbRaiseUnique(1)
  \/ (req[1].q.t = "insMeas" /\ DbFail(1))

\* the requests that arrive with and without suppressTimelineGeneration
TimelineRequests == {<<"all", "small">>, <<"all", "mixed">>}

\* one request at a time
NextTimeline ==
  \/ (calls < MaxCalls /\ \E q \in TimelineRequests : \E sup \in BOOLEAN :
        Call(1, q[1], q[2], sup))
  \/ DbSelect(1)
  \/ DbInsertRow(1)
  \/ DbInsertMeasurement(1)
  \/ DbInsertProfile(1)
  \/ Resume(1)
  \/ Drain
  \/ \E k \in DOMAIN updater.jobs : \E stored \in BOOLEAN : Compute(k, stored)
  \/ Quiesce

\* calls of recordTimeline, in any order
NextUpsert ==
  \E runId \in TimelineRuns, trialId \in TimelineTrials,
     criterion \in TimelineCriteria, stats \in StatsInputs :
    RecordTimeline(runId, trialId, criterion, stats)

\* the requests that arrive one after the other, for each invalidation delay
TokenRequests == {<<"all", "small">>, <<"meta", "small">>}

NextToken ==
  \/ (calls < MaxCalls /\ \E q \in TokenRequests : Call(1, q[1], q[2], FALSE))
  \/ DbSelect(1)
  \/ DbInsertRow(1)
  \/ DbInsertMeasurement(1)
  \/ DbInsertProfile(1)
  \/ Resume(1)
  \/ \E i \in DOMAIN tokens : TimerFires(i)

\* the completion payloads: an experiment that exists or not, endTime given or not
Completions ==
  {[projectName |-> "proj", experimentName |-> x, endTime |-> t] :
     x \in {"exp1", "exp2", "exp9"}, t \in {"", "e1", "e2"}}

\* the requests that arrive one after the other while completions are reported
CompletionRequests == {<<"meta", "small">>, <<"meta", "late">>, <<"meta", "mixed">>}

NextCompletion ==
  \/ (calls < MaxCalls /\ \E q \in CompletionRequests : Call(1, q[1], q[2], FALSE))
  \/ DbSelect(1)
  \/ DbInsertRow(1)
  \/ Resume(1)
  \/ \E data \in Completions : ReportCompletion(data)
  \/ CompletionFetch
  \/ CompletionUpdate

\* the requests that arrive one after the other while completions are
\* reported and base branches are set
FrameRequests ==
  {<<"all", "small">>, <<"all", "mixed">>, <<"all", "resub">>, <<"meta", "resub">>}

\* the calls of setProjectBaseBranch: <<projectName, baseBranch>>
BaseBranches == {<<"proj", "main">>, <<"proj", "feature">>, <<"none", "main">>}

NextFrame ==
  \/ (calls < MaxCalls /\ \E q \in FrameRequests : Call(1, q[1], q[2], FALSE))
  \/ DbSelect(1)
  \/ DbInsertRow(1)
  \/ DbInsertMeasurement(1)
  \/ DbInsertProfile(1)
  \/ Resume(1)
  \/ \E data \in {c \in Completions : c.endTime = "e1"} : ReportCompletion(data)
  \/ CompletionFetch
  \/ CompletionUpdate
  \/ \E b \in BaseBranches : SetProjectBaseBranch(b[1], b[2])

\* the requests that arrive one after the other while the caches are cleared
CacheRequests == {<<"all", "small">>, <<"meta", "small">>, <<"meta", "mixed">>}

NextCache ==
  \/ (calls < MaxCalls /\ \E q \in CacheRequests : Call(1, q[1], q[2], FALSE))
  \/ DbSelect(1)
  \/ DbInsertRow(1)
  \/ DbInsertMeasurement(1)
  \/ DbInsertProfile(1)
  \/ Resume(1)
  \/ ClearCache

\* the requests that arrive one after the other while the store is queried
QueryRequests ==
  {<<"meta", "small">>, <<"meta", "late">>, <<"meta", "mid">>, <<"meta", "other">>,
   <<"meta", "huge">>}

\* the calls of revisionsExistInProject: <<projectSlug, base, change>>
RevisionQueries ==
  {<<"Proj", "c1", "c3">>, <<"proj", "c1", "c9">>, <<"proj", "c1", "c7">>,
   <<"my-proj", "c1", "c9">>}

\* the calls of getBaselineCommit: <<projectName, currentCommitId>>
BaselineQueries == {<<"proj", "c2">>, <<"proj", "c1">>, <<"proj", "c3">>}

NextQuery ==
  \/ (calls < MaxQueryCalls /\ \E q \in QueryRequests : Call(1, q[1], q[2], FALSE))
  \/ DbSelect(1)
  \/ DbInsertRow(1)
  \/ Resume(1)
  \/ SetProjectBaseBranch("proj", "main")
  \/ \E a \in RevisionQueries : RevisionsExistInProject(a[1], a[2], a[3])
  \/ \E a \in BaselineQueries : GetBaselineCommit(a[1], a[2])

\* convertToTimelineResponse on the results of a timeline statement: rows of
\* startTime, branch, isCurrent, sourceId and the three statistics, ORDER BY
\* tr.startTime ASC; <<baseBranchName, changeBranchName>> is null and null from
\* getTimelineForRun, the branches of the two commits from getTimelineData
NextResponse ==
  LET ResultRows ==
        {[starttime |-> t, branch |-> b, iscurrent |-> c, sourceid |-> i,
          bci95low |-> t + 1, median |-> t + 2, bci95up |-> t + 3] :
           t \in {10, 20}, b \in {"main", "feature"}, c \in BOOLEAN, i \in {1, 2}}
  IN \E rows \in UNION {[1..n -> ResultRows] : n \in 0..MaxRows},
        b \in {<<"", "">>, <<"main", "feature">>, <<"main", "main">>,
               <<"feature", "main">>} :
       /\ \A i \in 1..(Len(rows) - 1) : rows[i].starttime <= rows[i + 1].starttime
       /\ ConvertToTimelineResponse(rows, b[1], b[2])

\* the timeline requests: each optional filter absent ("") or one of two values
NextTimelineQuery ==
  \E request \in
       [baseline : {"c1"}, change : {"c2"}, b : {"benchA", "benchB"},
        s : {"suite"}, e : {"exec"}, v : {"", "1", "2"}, c : {"", "1", "2"},
        i : {"", "1", "2"}, ea : {"", "1", "2"}] :
    ConstructTimelineQuery(request)

\* the requests that arrive one after the other while projects are looked
\* up, and the names getProjectByName is called with
NextLookup ==
  \/ ( /\ calls < MaxCalls
       /\ \E q \in {<<"meta", "small">>, <<"meta", "other">>} :
            Call(1, q[1], q[2], FALSE) )
  \/ DbSelect(1)
  \/ DbInsertRow(1)
  \/ Resume(1)
  \/ ClearCache
  \/ \E n \in {"proj", "my proj", "none"} : GetProjectByName(n)
  \/ GetCachedFetch

\* the comparisons asked for, with commit ids as their characters: two that
\* share their first six, and a short one; a subprocess ends with status 0 or
\* with an error
NextReport ==
  LET CommitA1 == <<"a", "b", "c", "d", "e", "f", "1">>
      CommitA2 == <<"a", "b", "c", "d", "e", "f", "2">>
      CommitB == <<"9", "9">>
  IN \/ \E q \in {<<CommitA1, CommitB>>, <<CommitA2, CommitB>>,
                  <<CommitB, CommitA1>>} : DashCompare(q[1], q[2], "proj")
     \/ \E c \in dash.children : ChildWritesReport(c)
     \/ \E c \in dash.children :
          \E o \in {[error |-> NoError, stdout |-> "done", stderr |-> ""],
                    [error |-> "exit 1", stdout |-> "",
                     stderr |-> "Error in render"]} : ExecFileCallback(c, o)

SpecReport == Init /\ [][NextReport]_vars

Spec == Init /\ [][Next]_vars

SpecLookup == Init /\ [][NextLookup]_vars

SpecTimelineQuery == Init /\ [][NextTimelineQuery]_vars

SpecResponse == Init /\ [][NextResponse]_vars

SpecQuery == Init /\ [][NextQuery]_vars

SpecCache == Init /\ [][NextCache]_vars

SpecFrame == Init /\ [][NextFrame]_vars

SpecUpsert == Init /\ [][NextUpsert]_vars

SpecCompletion == Init /\ [][NextCompletion]_vars

SpecToken == InitToken /\ [][NextToken]_vars

SpecTimeline == InitTimeline /\ [][NextTimeline]_vars

SpecRetry == Init /\ [][NextRetry]_vars

SpecBatch == Init /\ [][NextBatch]_vars

SpecFault == Init /\ [][NextFault]_vars

----------------------------------------------------------------------------
(* Properties *)

Count(e, key) == Cardinality({x \in tbl[e] : x.key = key})

Row(e, key) == CHOOSE x \in tbl[e] : x.key = key

\* the natural keys of payload P, by the rows the store holds
ExperimentKey(P) == <<Row("Project", <<P.projectName>>).id, P.experimentName>>

TrialKey(P) ==
  <<P.env.userName, Row("Environment", <<P.env.hostName>>).id, P.startTime,
    Row("Experiment", ExperimentKey(P)).id>>

\* every natural key of the payload has exactly one row
RecordedOnce(pn) ==
  LET P == Payload(pn) IN
  /\ Count("Environment", <<P.env.hostName>>) = 1
  /\ Count("Project", <<P.projectName>>) = 1
  /\ Count("Source", <<P.source.commitId>>) = 1
  /\ Count("Experiment", ExperimentKey(P)) = 1
  /\ Count("Trial", TrialKey(P)) = 1
  /\ \A i \in 1..Len(P.criteria) :
       Count("Criterion", <<P.criteria[i].c, P.criteria[i].u>>) = 1
  /\ \A g \in 1..Len(P.data) :
       /\ Count("Executor", <<P.data[g].runId.executor>>) = 1
       /\ Count("Suite", <<P.data[g].runId.suite>>) = 1
       /\ Count("Benchmark", <<P.data[g].runId.benchmark>>) = 1
       /\ Count("Run", <<P.data[g].runId.cmdline>>) = 1

\* C1: a recordAllData(P) that runs to completion right after a completed
\* recordAllData(P) adds no row to any table and returns (0, 0)
C1_Idempotent ==
  \A r \in Slots :
    (req[r].status = "done" /\ req[r].repeat) =>
      /\ req[r].ret = <<0, 0>>
      /\ req[r].addedMeta = 0
      /\ req[r].addedM = 0
      /\ req[r].addedP = 0

\* the second of two recordAllData calls of the big payload returned, with the
\* first one's rows in the store
C1_Witness ==
  \E r \in Slots :
    /\ req[r].status = "done" /\ req[r].repeat /\ req[r].p = "big"
    /\ Cardinality(measurement) = 63

\* C2: in every reachable state no two Measurement rows share
\* (runId, trialId, invocation, iteration, criterionId)
C2_Dedup ==
  \A a, b \in measurement : MeasKey(a) = MeasKey(b) => a = b

\* a request has sent more tuples than it added rows: a key arrived twice
C2_Witness ==
  \E r \in Slots :
    /\ req[r].status = "done" /\ req[r].p = "mixed"
    /\ req[r].addedM > 0 /\ Len(req[r].sent) > req[r].addedM

\* C3: no two rows of a metadata table share a natural key, and every natural
\* key of a payload that recordAllData or recordMetaDataAndRuns has recorded has
\* exactly one row
C3_MetadataUnique ==
  /\ \A e \in CachedEntities : \A a, b \in tbl[e] : a.key = b.key => a = b
  /\ \A r \in Slots : req[r].status = "done" => RecordedOnce(req[r].p)

\* recordMetaDataAndRuns and recordAllData of the same payload overlapped and
\* both returned
C3_Witness ==
  \E r, r2 \in Slots :
    /\ req[r].status = "done" /\ req[r].kind = "meta"
    /\ req[r2].status = "done" /\ req[r2].kind = "all"
    /\ req[r].p = req[r2].p

\* the cache key under which recordCached holds a stored row of entity e
CacheKeyOf(e, row) ==
  CASE e = "Experiment" ->
         (CHOOSE x \in tbl["Project"] : x.id = row.key[1]).key[1] \o "::" \o row.key[2]
    [] e = "Trial" ->
         row.key[1] \o "-" \o ToString(row.key[2]) \o "-" \o row.key[3] \o "-"
         \o ToString(row.key[4])
    [] e = "Criterion" -> row.key[1] \o "::" \o row.key[2]
    [] OTHER -> row.key[1]

\* the cache of entity e holds row under the row's key
InCache(e, row) ==
  /\ CacheKeyOf(e, row) \in DOMAIN cache[e]
  /\ cache[e][CacheKeyOf(e, row)] = row

\* C4: however recordCached calls for one key interleave, none of them fails,
\* the key has one stored row, the row a call returned is that row, and the
\* cache holds that row under the key
C4_Converges ==
  /\ \A e \in CachedEntities :
       /\ \A a, b \in tbl[e] : a.key = b.key => a = b
       /\ \A k \in DOMAIN cache[e] :
            cache[e][k] \in tbl[e] /\ CacheKeyOf(e, cache[e][k]) = k
       /\ \A r \in Slots :
            (req[r].status = "run" /\ req[r].loc[e] # NoRow) =>
              req[r].loc[e] \in tbl[e] /\ InCache(e, req[r].loc[e])
  /\ \A r \in Slots :
       req[r].status = "failed" => req[r].lbl \notin {"rc.fetch", "rc.insert", "rc.refetch"}

\* two calls fetched no row for the key, one lost the insert to the other and
\* fetched again: both hold the one stored row, and so does the cache
C4_Witness ==
  \E e \in CachedEntities : \E r, r2 \in Slots :
    /\ r # r2
    /\ req[r].status = "run" /\ req[r].raced = e /\ req[r].loc[e] # NoRow
    /\ req[r2].status = "run" /\ req[r2].loc[e] = req[r].loc[e]
    /\ InCache(e, req[r].loc[e])
    /\ Count(e, req[r].loc[e].key) = 1

\* C5: a request whose recordCached insert failed with an error that is no
\* unique violation does not complete
C5_InsertErrorPropagates ==
  \A r \in Slots : req[r].insErr => req[r].status # "done"

\* C6: a request one of whose measurement inserts failed with an error that is
\* no unique violation does not complete
C6_MeasurementErrorPropagates ==
  \A r \in Slots : req[r].measErr => req[r].status # "done"

\* C7: no request fails with a unique violation
C7_UniqueViolationNeverFatal ==
  \A r \in Slots : req[r].status = "failed" => req[r].err # "23505"

\* the tuples <<runId, trialId, invocation, iteration, criterionId, value>> of
\* run group g of the payload, in payload order, by the rows the store holds
PayloadTuples(pn, g) ==
  LET P == Payload(pn)
      T == Flat[pn][g]
      run == Row("Run", <<P.data[g].runId.cmdline>>).id
      trial == Row("Trial", TrialKey(P)).id
      c(i) == CHOOSE x \in {P.criteria[j] : j \in 1..Len(P.criteria)} : x.i = i
      crit(i) == Row("Criterion", <<c(i).c, c(i).u>>).id
  IN [i \in 1..Len(T) |-> <<run, trial, T[i].in, T[i].it, crit(T[i].c), T[i].v>>]

\* the Measurement keys of the payload
PayloadKeys(pn) ==
  UNION {{MeasKey(PayloadTuples(pn, g)[i]) : i \in 1..Len(Flat[pn][g])} :
           g \in {h \in 1..Len(Payload(pn).data) : Payload(pn).data[h].hasD}}

\* C8: two recordAllData requests of one payload that overlapped are over: the
\* Measurement table holds each key of the payload once and nothing else, and
\* the counts the requests returned add up to the number of these keys
C8_ConcurrentSamePayload ==
  ( /\ calls = 2
    /\ \A r \in Slots : Finished(req[r]) /\ req[r].kind = "all"
    /\ req[1].p = req[2].p
    /\ \E r \in Slots : req[r].status = "done" ) =>
      /\ {MeasKey(x) : x \in measurement} = PayloadKeys(req[1].p)
      /\ Cardinality(measurement) = Cardinality(PayloadKeys(req[1].p))
      /\ req[1].ret[1] + req[2].ret[1] = Cardinality(PayloadKeys(req[1].p))

\* two overlapping requests of the big payload returned, each with a share
C8_Witness ==
  /\ calls = 2
  /\ \A r \in Slots : req[r].status = "done" /\ req[r].kind = "all" /\ req[r].p = "big"
  /\ req[1].ret[1] > 0 /\ req[2].ret[1] > 0

\* C9: recordAllData returns the number of Measurement rows and of ProfileData
\* rows that its own statements added to the store
C9_ReturnsRowsAdded ==
  \A r \in Slots :
    (req[r].status = "done" /\ req[r].kind = "all") =>
      req[r].ret = <<req[r].addedM, req[r].addedP>>

\* a request returned fewer rows than the tuples and profiles it sent
C9_Witness ==
  \E r \in Slots :
    /\ req[r].status = "done" /\ req[r].kind = "all" /\ req[r].p = "mixed"
    /\ req[r].ret = <<3, 1>> /\ Len(req[r].sent) = 4

\* the payload tuples of run group g for which the rows read when the group
\* started hold no row of the run, trial, invocation and criterion with an
\* iteration as large
NotSkipped(pn, g, rows) ==
  SelectSeq(PayloadTuples(pn, g),
            LAMBDA v : ~\E x \in rows :
                         /\ <<x[1], x[2], x[3], x[5]>> = <<v[1], v[2], v[3], v[5]>>
                         /\ x[4] >= v[4])

\* C11: a recordAllData(P) that runs to completion after a recordAllData(P)
\* which a database error aborted leaves a Measurement row for every key of P
C11_ResubmissionConverges ==
  \A r \in Slots :
    (req[r].status = "done" /\ req[r].kind = "all" /\ req[r].retry) =>
      PayloadKeys(req[r].p) \subseteq {MeasKey(x) : x \in measurement}

\* the statements recordMeasurements issues for k tuples that are not skipped
ExpectedPlan(k) ==
  LET nN == k \div batchN
      n10 == (k % batchN) \div batch10
      n1 == k % batch10
  IN [i \in 1..(nN + n10 + n1) |->
        IF i <= nN THEN <<"insertMeasurementN", batchN, 6 * batchN>>
        ELSE IF i <= nN + n10 THEN <<"insertMeasurement10", batch10, 6 * batch10>>
        ELSE <<"insertMeasurement", 1, 6>>]

\* C12: while no statement of the request fails, recordMeasurements sends the k tuples of a run
\* group that are not skipped in k div 50 statements of 50 rows, then
\* (k mod 50) div 10 statements of 10 rows, then k mod 10 statements of one row;
\* each statement has 6 parameters per tuple, as many as its text has
\* placeholders, and each of the k tuples is in exactly one statement
C12_BatchPlan ==
  \A r \in Slots :
    ( /\ req[r].status = "done" /\ req[r].kind = "all" /\ req[r].measDone > 0
      /\ ~req[r].measErr /\ ~req[r].insErr ) =>
      LET NS == NotSkipped(req[r].p, req[r].measDone, req[r].snapshot)
          plan == req[r].plan
      IN /\ plan = ExpectedPlan(Len(NS))
         /\ \A i \in 1..Len(plan) :
              /\ Len(Placeholders(plan[i][1])) = plan[i][2]
              /\ Len(Values(Placeholders(plan[i][1]))) = plan[i][3]
         /\ \A i \in 1..Len(NS) :
              Cardinality({j \in 1..Len(req[r].sent) : req[r].sent[j] = NS[i]}) = 1

\* the 113 tuples of the huge payload went out in two 50-row, a 10-row and
\* three single-row statements
C12_Witness ==
  \E r \in Slots :
    /\ req[r].status = "done" /\ req[r].p = "huge" /\ req[r].measDone = 1
    /\ ~req[r].measErr /\ ~req[r].insErr
    /\ Len(req[r].sent) = 113
    /\ Len(req[r].plan) = 6
    /\ req[r].plan[2][2] = batchN /\ req[r].plan[3][2] = batch10

\* s is a prefix of t
IsPrefix(s, t) == Len(s) <= Len(t) /\ s = SubSeq(t, 1, Len(s))

\* the tuples of the sequence
Range(s) == {s[i] : i \in 1..Len(s)}

\* the tuples of the batches that raised a unique violation are sent again one
\* by one, each once and in batch order; when the request returns all of them
\* were, all the tuples of the group that are not skipped were sent, and of
\* these only a tuple whose single-row statement raised a unique violation (or
\* that a batch lost to another error) has no row
C13_Retried(s) ==
  /\ IsPrefix(s.resent, s.uqB)
  /\ (s.status = "done" /\ s.measDone > 0) =>
       /\ s.resent = s.uqB
       /\ s.sent = NotSkipped(s.p, s.measDone, s.snapshot)
       /\ ~s.measErr =>
            {MeasKey(x) : x \in measurement} =
              {MeasKey(x) : x \in Range(s.sent) \ Range(s.uqS)}

\* the request resumes with an error on the single-row statement of a retry
\* that is no unique violation: it fails with that error
C13_Propagates(s, t) ==
  ( /\ s.status = "run" /\ s.hasRes /\ ~s.res.ok
    /\ ~isUniqueViolationError(s.res)
    /\ s.lbl = "single" /\ s.fbFrom \in {"N", "10"}
    /\ t # s ) =>
      t.status = "failed" /\ t.err = s.res.code

\* C13: when a multi-row measurement insert raises a unique violation, every
\* tuple of the batch is sent again once, as a single-row insert, in batch
\* order; a unique violation on such an insert leaves out that tuple only, any
\* other error on it fails the request, and the batches that follow are sent
C13_BatchFallback ==
  [][\A r \in Slots : C13_Retried(req[r])' /\ C13_Propagates(req[r], req[r]')]_vars

\* the 50-row statement raised a unique violation, one of the 50 single-row
\* statements that followed raised another, and the request returned after the
\* 10-row and the single-row statements: 62 rows
C13_Witness ==
  \E r \in Slots :
    /\ req[r].status = "done" /\ req[r].p = "big" /\ ~req[r].measErr
    /\ Len(req[r].uqB) = batchN /\ Len(req[r].resent) = batchN
    /\ Len(req[r].uqS) = 1 /\ req[r].uqS[1] \in Range(req[r].uqB)
    /\ Len(req[r].sent) = 63
    /\ Cardinality(measurement) = 62

\* the run group of the payload that has measurements (each payload has one)
DataGroup(pn) == CHOOSE g \in 1..Len(Payload(pn).data) : Payload(pn).data[g].hasD

\* the positions, among the tuples of the payload's run group, of the tuples ts
PayloadIndex(pn, ts) ==
  LET PT == PayloadTuples(pn, DataGroup(pn)) IN
  [k \in 1..Len(ts) |-> CHOOSE i \in 1..Len(PT) : PT[i] = ts[k]]

\* the tuples that the first i statements of the plan took
RECURSIVE TuplesUpTo(_, _)
TuplesUpTo(plan, i) == IF i = 0 THEN 0 ELSE plan[i][2] + TuplesUpTo(plan, i - 1)

\* the number of the statement that took each tuple sent
StatementOf(plan) ==
  LET upTo == [i \in 0..Len(plan) |-> TuplesUpTo(plan, i)] IN
  [k \in 1..upTo[Len(plan)] |->
     CHOOSE h \in 1..Len(plan) : upTo[h - 1] < k /\ k <= upTo[h]]

\* C14: the measurement tuples a request sends go out in payload order: of two
\* tuples sent, the one that comes first in the payload is in an earlier
\* statement, or in the same statement at an earlier place (the payload
\* positions of the tuples sent increase from each tuple to the next, and the
\* statement numbers do not decrease)
C14_PayloadOrder ==
  \A r \in Slots :
    (req[r].kind = "all" /\ req[r].sent # <<>>) =>
      LET pos == PayloadIndex(req[r].p, req[r].sent)
          stmt == StatementOf(req[r].plan)
      IN /\ Len(stmt) = Len(pos)
         /\ \A i \in 1..(Len(pos) - 1) :
              pos[i] < pos[i + 1] /\ stmt[i] <= stmt[i + 1]

\* two requests of the big payload overlapped: one sent all 63 tuples in five
\* statements, the other the 13 that had no row when its run group started
C14_Witness ==
  \E r, r2 \in Slots :
    /\ req[r].p = "big" /\ Len(req[r].sent) = 63 /\ Len(req[r].plan) = 5
    /\ req[r2].p = "big" /\ Len(req[r2].sent) = 13 /\ Len(req[r2].plan) = 4

\* the ids of the rows of a metadata table
Ids(e) == {x.id : x \in tbl[e]}

\* C15: every Measurement row refers to a Run, a Trial and a Criterion row that
\* exist, and every ProfileData row to a Run and a Trial row that exist, also
\* while requests run and after a request failed part-way
C15_ReferentialClosure ==
  /\ \A x \in measurement :
       x[1] \in Ids("Run") /\ x[2] \in Ids("Trial") /\ x[5] \in Ids("Criterion")
  /\ \A x \in profileData : x[1] \in Ids("Run") /\ x[2] \in Ids("Trial")
  /\ \A x \in tbl["Trial"] :
       x.key[2] \in Ids("Environment") /\ x.key[4] \in Ids("Experiment")
                                       /\ x.attrs[1] \in Ids("Source")
  /\ \A x \in tbl["Experiment"] : x.key[1] \in Ids("Project")
  /\ \A x \in tbl["Run"] :
       x.attrs[1] \in Ids("Benchmark") /\ x.attrs[2] \in Ids("Executor")
                                       /\ x.attrs[3] \in Ids("Suite")

\* a request failed after it had stored measurements, and a profile is stored
C15_Witness ==
  /\ \E r \in Slots : req[r].status = "failed" /\ req[r].addedM > 0
  /\ measurement # {}
  /\ profileData # {}

\* the Measurement rows of the (trial, run, criterion) key k of the updater
RowsOf(k) == {x \in measurement : <<x[2], x[1], x[5]>> = k}

\* C16: once the requests are over, the updater was given, for each run, trial
\* and criterion, one value per Measurement row recorded, and values of the
\* total criterion only
C16_AddValueOnlyRecorded ==
  (\A r \in Slots : req[r].status # "run") =>
    \A k \in DOMAIN updater.pending :
      /\ Len(updater.pending[k]) = Cardinality(RowsOf(k))
      /\ \A c \in tbl["Criterion"] : c.id = k[3] => c.key[1] = TotalCriterion

\* the step returns recordAllData request r
Returns(r) ==
  req[r]' # req[r] /\ req[r]'.status = "done" /\ req[r]'.kind = "all"

\* C17: submitUpdateJobs is called in the step in which a recordAllData request
\* returns, once, if the request recorded measurements, the updater is enabled
\* and suppressTimeline is false, and in no other step
C17_SubmitOnce ==
  [][updater'.submits - updater.submits =
       IF \E r \in Slots : /\ Returns(r)
                            /\ req[r]'.ret[1] > 0
                            /\ updater.enabled
                            /\ ~req[r]'.suppress
         THEN 1 ELSE 0]_vars

\* with the updater enabled, the second of two requests that recorded
\* measurements returned, and the jobs were submitted once: for one of the
\* requests suppressTimeline was true
C17_Witness ==
  /\ updater.enabled /\ updater.submits = 1 /\ calls = 2
  /\ Cardinality(measurement) = 6
  /\ \E r \in Slots : /\ req[r].status = "done" /\ req[r].kind = "all"
                       /\ req[r].ret[1] > 0

\* the Timeline rows of a key
TimelineRows(k) == {x \in timeline : TimelineKey(x) = k}

\* the table holds one row for each key written and no other row, and the
\* statistics columns of the row are those of the latest call for the key
C19_LatestStats ==
  /\ \A x \in timeline : TimelineKey(x) \in DOMAIN lastStats
  /\ \A k \in DOMAIN lastStats :
       /\ Cardinality(TimelineRows(k)) = 1
       /\ \A x \in TimelineRows(k) :
            /\ x.minval = lastStats[k].min
            /\ x.maxval = lastStats[k].max
            /\ x.sdval = lastStats[k].standardDeviation
            /\ x.mean = lastStats[k].mean
            /\ x.median = lastStats[k].median
            /\ x.numsamples = lastStats[k].numberOfSamples
            /\ x.bci95low = lastStats[k].bci95low
            /\ x.bci95up = lastStats[k].bci95up

\* C19: after any sequence of recordTimeline calls the Timeline table holds
\* one row per (runId, trialId, criterion) written, with the statistics of the
\* latest call for the key, and a call leaves the rows of the other keys as
\* they were
C19_Upsert ==
  [][/\ C19_LatestStats'
     /\ \A x \in timeline :
          ( /\ TimelineKey(x) \in DOMAIN lastStats
            /\ lastStats'[TimelineKey(x)] = lastStats[TimelineKey(x)] ) =>
              x \in timeline']_vars

\* recordTimeline was called for four keys: each has its row, with the
\* statistics of different calls
C19_Witness ==
  /\ Cardinality(timeline) = 4
  /\ \E x, y \in timeline :
       /\ x.numsamples = 3 /\ y.numsamples = 7 /\ y.sdval = 3
       /\ TimelineKey(x) # TimelineKey(y)

\* no request runs, every value added was submitted, and the consumer has come
\* to rest
Quiescent ==
  /\ \A r \in Slots : req[r].status # "run"
  /\ updater.pending = <<>> /\ updater.jobs = <<>> /\ ~updater.triggered

\* each key the consumer worked on has one Timeline row, whose numSamples is
\* the number of Measurement rows of the key
TimelineMatches ==
  \A k \in DOMAIN lastStats :
    /\ Cardinality(TimelineRows(<<k[2], k[1], k[3]>>)) = 1
    /\ \A x \in TimelineRows(<<k[2], k[1], k[3]>>) :
         x.numsamples = Cardinality(RowsOf(k))

\* C18: after submitUpdateJobs and quiescence every (run, trial, criterion)
\* that received values has one Timeline row, whose numSamples is the number
\* of Measurement rows stored for it
C18_TimelineConverges == Quiescent => TimelineMatches

\* the same, for a consumer that computes every row from the stored sample
C18_ConvergesFromStore == (Quiescent /\ ~updater.fromValues) => TimelineMatches

\* the (trial, run, criterion) keys of the stored Measurement rows of the total
\* criterion
TotalKeys ==
  {<<x[2], x[1], x[5]>> :
     x \in {y \in measurement :
              \E c \in tbl["Criterion"] : c.id = y[5] /\ c.key[1] = TotalCriterion}}

\* the request called last returned and submitted its jobs, no request runs,
\* and the consumer has not drained a job yet
AllSubmitted ==
  /\ updater.enabled
  /\ \A r \in Slots : req[r].status # "run"
  /\ \E r \in Slots : /\ req[r].callNo = calls /\ req[r].status = "done"
                       /\ req[r].kind = "all" /\ req[r].ret[1] > 0
                       /\ ~req[r].suppress
  /\ updater.jobs = <<>> /\ lastStats = <<>>

\* C20: TimelineCalcJob holds at most one row per (trialId, runId,
\* criterionId) in every reachable state, and once the payloads ingested are
\* submitted the queued keys are the triples that received values of the total
\* criterion
C20_OneJobPerKey ==
  /\ \A k \in DOMAIN updater.queue : updater.queue[k] = 1
  /\ AllSubmitted => /\ DOMAIN updater.queue = DOMAIN updater.pending
                     /\ DOMAIN updater.queue = TotalKeys

\* two requests submitted their jobs, the key of the first was pending at both
\* calls of submitUpdateJobs, and two keys are queued
C20_Witness ==
  /\ AllSubmitted /\ updater.submits = 2
  /\ Cardinality(DOMAIN updater.queue) = 2

\* the step is the call of recordAllData, up to its first statement: it runs
\* invalidateStatsCache on the token statsValid
InvalidateStep ==
  /\ calls' = calls + 1
  /\ \E r \in Slots : req'[r].callNo = calls' /\ req'[r].kind = "all"

\* C22: invalidateAndNew returns the receiver exactly when the receiver is
\* valid after the call, and otherwise a token that did not exist before, valid
\* and with the delay of the receiver; the token returned is valid
C22_ReturnsValidToken ==
  [][InvalidateStep =>
       /\ (statsValid' = statsValid) <=> tokens'[statsValid].valid
       /\ statsValid' # statsValid =>
            /\ statsValid' \notin DOMAIN tokens
            /\ statsValid' \in DOMAIN tokens'
            /\ tokens'[statsValid'] = NewToken(tokens[statsValid].invalidationDelay)
       /\ tokens'[statsValid'].valid]_vars

\* with a delay, the first call returned the receiver, its timer fired, and the
\* second call on it returned a new token
C22_Witness ==
  /\ Len(tokens) = 2 /\ statsValid = 2
  /\ tokens[1].invalidations = 2 /\ ~tokens[1].valid
  /\ tokens[1].invalidationDelay > 0 /\ tokens[2].invalidationDelay > 0
  /\ tokens[2].valid

\* C23: a token has at most one pending timer, set by the first call of
\* invalidateAndNew on it, and a call on a token whose invalidation is
\* scheduled leaves the token and its timer as they are
C23_OneTimer ==
  [][/\ \A i \in DOMAIN tokens' :
          /\ Len(tokens'[i].timers) <= 1
          /\ \A k \in DOMAIN tokens'[i].timers : tokens'[i].timers[k] = 1
     /\ (InvalidateStep /\ tokens[statsValid].scheduledInvalidation) =>
          tokens'[statsValid] = [tokens[statsValid] EXCEPT !.invalidations = @ + 1]]_vars

\* invalidateAndNew was called twice on a token whose timer is pending
C23_Witness ==
  \E i \in DOMAIN tokens :
    tokens[i].invalidations = 2 /\ tokens[i].timers = <<1>> /\ tokens[i].valid

\* C24: by the call of recordAllData, before its first statement, the token
\* that was current is invalid and the current token is another, valid one
C24_InvalidatesImmediately ==
  [][InvalidateStep =>
       /\ ~tokens'[statsValid].valid
       /\ statsValid' # statsValid
       /\ tokens'[statsValid'].valid]_vars

\* C24, amended: this holds with cacheInvalidationDelay = 0, and with a delay
\* when the token that was current is invalid already; with a delay and a valid
\* token the call schedules the invalidation, and the token stays current and
\* valid until its timer fires
C24_InvalidatesAfterDelay ==
  [][InvalidateStep =>
       IF tokens[statsValid].invalidationDelay = 0 \/ ~tokens[statsValid].valid
         THEN /\ ~tokens'[statsValid].valid
              /\ statsValid' # statsValid
              /\ tokens'[statsValid'].valid
         ELSE /\ statsValid' = statsValid
              /\ tokens'[statsValid].valid
              /\ tokens'[statsValid].scheduledInvalidation
              /\ tokens'[statsValid].timers # <<>>]_vars

\* recordAllData was called with a delay: the token is current and valid, its
\* timer pending
C24_Witness ==
  /\ calls = 1 /\ statsValid = 1 /\ Len(tokens) = 1
  /\ tokens[1].valid /\ tokens[1].scheduledInvalidation /\ tokens[1].timers # <<>>
  /\ \E r \in Slots : req[r].kind = "all" /\ req[r].status = "run"

\* the jobs enqueued and not yet computed: the rows of TimelineCalcJob and the
\* keys the consumer drained and works on
OutstandingJobs == DOMAIN updater.queue \cup DOMAIN updater.jobs

\* C21: the quiescence promise completes only in a step before and after which
\* pending is empty and no job is outstanding
C21_QuiescenceOnlyWhenDrained ==
  [][(updater.triggered /\ ~updater'.triggered) =>
       /\ updater.pending = <<>> /\ OutstandingJobs = {}
       /\ updater'.pending = <<>> /\ OutstandingJobs' = {}]_vars

\* the promise completed after the consumer computed the rows of two keys
C21_Witness ==
  /\ updater.submits > 0 /\ ~updater.triggered
  /\ Cardinality(timeline) = 2
  /\ updater.pending = <<>> /\ OutstandingJobs = {}

\* the step in which the store executes the UPDATE of reportCompletion
CompletionStep == admin.state = "update" /\ admin'.state = "done"

\* the Trial rows of the experiment with id expId whose endTime is NULL
OpenTrials(expId) == {t \in tbl["Trial"] : t.key[4] = expId /\ t.attrs[2] = ""}

\* C25: reportCompletion for an experiment that exists, with an endTime, sets
\* endTime on the Trials of the experiment whose endTime is NULL and leaves
\* every other row of the store as it is; if the experiment has no such Trial,
\* as after an earlier completion, no row changes
C25_CompletionFrame ==
  [][CompletionStep =>
       /\ admin.args.endTime # ""
       /\ admin.exp \in fetchExperimentByProjectNameExpName(
                          admin.args.projectName, admin.args.experimentName)
       /\ \A t \in tbl["Trial"] :
            IF t \in OpenTrials(admin.exp.id)
              THEN /\ [t EXCEPT !.attrs[2] = admin.args.endTime] \in tbl'["Trial"]
                   /\ t \notin tbl'["Trial"]
              ELSE t \in tbl'["Trial"]
       /\ Cardinality(tbl'["Trial"]) = Cardinality(tbl["Trial"])
       /\ \A e \in Entities \ {"Trial"} : tbl'[e] = tbl[e]
       /\ measurement' = measurement /\ profileData' = profileData
       /\ OpenTrials(admin.exp.id) = {} => tbl' = tbl]_vars

\* a second completion of the experiment, with another endTime, has returned:
\* its Trial keeps the endTime of the first, the Trial of the other experiment
\* has none
C25_Witness ==
  /\ admin.state = "done" /\ admin.args.endTime = "e2"
  /\ \E t \in tbl["Trial"] : t.key[4] = admin.exp.id /\ t.attrs[2] = "e1"
  /\ \E t \in tbl["Trial"] : t.key[4] # admin.exp.id /\ t.attrs[2] = ""
  /\ \A t \in tbl["Trial"] : t.attrs[2] # "e2"

\* C26: reportCompletion throws "no experiment found" exactly when no
\* experiment has the two names, whatever endTime is, throws "without endTime"
\* when the experiment exists and endTime is missing, goes on to the UPDATE
\* only with both, and a call that throws changes no row
C26_CompletionErrors ==
  [][/\ (admin' # admin /\ admin'.state = "failed") =>
          /\ tbl' = tbl /\ measurement' = measurement /\ profileData' = profileData
          /\ admin'.err \in {"no experiment found", "without endTime"}
          /\ (admin'.err = "no experiment found") <=>
               (fetchExperimentByProjectNameExpName(
                  admin'.args.projectName, admin'.args.experimentName) = {})
          /\ admin'.err = "without endTime" => admin'.args.endTime = ""
     /\ (admin' # admin /\ admin'.state = "update") =>
          /\ tbl' = tbl
          /\ admin'.args.endTime # ""
          /\ fetchExperimentByProjectNameExpName(
               admin'.args.projectName, admin'.args.experimentName) # {}]_vars

\* a completion without endTime for an experiment that does not exist threw
\* "no experiment found", with Trials in the store
C26_Witness ==
  /\ admin.state = "failed" /\ admin.err = "no experiment found"
  /\ admin.args.endTime = "" /\ admin.args.experimentName = "exp9"
  /\ tbl["Trial"] # {}

\* C27: no step removes or changes a Measurement or ProfileData row; a step of
\* recordAllData or recordMetaDataAndRuns, or of the store on their statements,
\* keeps every metadata row as it is; a metadata row changes only by the
\* UPDATE of reportCompletion, in the endTime of a Trial, or by
\* setProjectBaseBranch, in the baseBranch of a Project
C27_IngestionFrame ==
  [][/\ measurement \subseteq measurement'
     /\ profileData \subseteq profileData'
     /\ (req' # req \/ calls' # calls) =>
          \A e \in Entities : tbl[e] \subseteq tbl'[e]
     /\ \A e \in Entities : \A x \in tbl[e] \ tbl'[e] :
          \/ /\ e = "Trial" /\ CompletionStep
             /\ [x EXCEPT !.attrs[2] = admin.args.endTime] \in tbl'[e]
          \/ /\ e = "Project" /\ admin'.op = "setProjectBaseBranch"
             /\ [x EXCEPT !.attrs[2] = admin'.args.baseBranch] \in tbl'[e]]_vars

\* the trial of the small payload was submitted again, with another
\* description, commit, run details, values and profile, and the call
\* returned: the rows of the first submission are as they were
C27_Witness ==
  /\ calls = 2 /\ req[1].status = "done" /\ req[1].p = "resub" /\ req[1].kind = "all"
  /\ \E x \in tbl["Experiment"] : x.key[2] = "exp1" /\ x.attrs = <<"d1">>
  /\ \E c \in tbl["Source"] : /\ c.key = <<"c1">>
                              /\ \A t \in tbl["Trial"] : t.attrs[1] = c.id
  /\ \A x \in tbl["Run"] : x.attrs[4] = "w1"
  /\ Cardinality(measurement) = 3 /\ \A x \in measurement : x[6] \in 101..103
  /\ profileData # {} /\ \A x \in profileData : x[5] = "prof"

\* the step of clearCache()
ClearStep == cache' = [e \in CachedEntities |-> <<>>] /\ req' = req

\* the entity whose record call records entity e first
Outer(e) ==
  CASE e = "Project" -> "Experiment" [] e = "Source" -> "Trial"
    [] e = "Unit" -> "Criterion" [] OTHER -> "Run"

\* C28: an entry of an interning cache stays mapped to the same row in every
\* step but clearCache(); no fetch or insert statement is sent for a key that
\* is cached, nor for the entities a cached one refers to, and the row a record call returned is the cached one; a fetch is
\* answered with the stored row of the key (so also after clearCache()), and
\* no insert is sent for a key that has a row
C28_CacheNeverExpires ==
  [][/\ ~ClearStep =>
          \A e \in CachedEntities : \A k \in DOMAIN cache[e] :
            k \in DOMAIN cache'[e] /\ cache'[e][k] = cache[e][k]
     /\ LET s == req'[1] IN
        /\ (s.status = "run" /\ ~s.hasRes /\ s.q.t \in {"fetch", "insert"}
                /\ s.q.e \in CachedEntities) =>
             \A k \in DOMAIN cache'[s.q.e] : cache'[s.q.e][k].key # s.q.key
        /\ (s.status = "run" /\ ~s.hasRes /\ s.q.t \in {"fetch", "insert"}
                /\ s.q.e \in {"Project", "Source", "Unit", "Executor", "Suite",
                               "Benchmark"}) =>
             CacheKey(Outer(s.q.e), s) \notin DOMAIN cache'[Outer(s.q.e)]
        /\ \A e \in CachedEntities : \A k \in DOMAIN cache'[e] :
             cache'[e][k].key = s.loc[e].key => cache'[e][k] = s.loc[e]
        /\ (s.status = "run" /\ s.hasRes /\ s.q.t = "fetch" /\ s.res.ok) =>
             s.res.rows = {x \in tbl'[s.q.e] : x.key = s.q.key}
        /\ (s.status = "run" /\ ~s.hasRes /\ s.q.t = "insert") =>
             {x \in tbl'[s.q.e] : x.key = s.q.key} = {}]_vars

\* the small payload was recorded, the caches were cleared, and in the second
\* call for it the fetch of the Trial is answered with the row of the first
C28_Witness ==
  /\ last = [kind |-> "meta", p |-> "small", status |-> "done"]
  /\ req[1].callNo = 2 /\ req[1].status = "run" /\ req[1].p = "small"
  /\ req[1].q.t = "fetch" /\ req[1].q.e = "Trial" /\ req[1].hasRes
  /\ req[1].res.rowCount = 1 /\ \A x \in req[1].res.rows : x.id = 1
  /\ Cardinality(tbl["Trial"]) = 1
  /\ DOMAIN cache["Experiment"] # {} /\ DOMAIN cache["Trial"] = {}

\* commit c has a trial in an experiment of the project with the slug
RecordedInProject(projectSlug, c) ==
  \E x \in Joined : Lower(x[1].attrs[1]) = Lower(projectSlug) /\ x[4].key[1] = c

\* C29: revisionsExistInProject(slug, base, change) never raises, returns
\* dataFound = true exactly when the base commit and the change commit both
\* have a trial in an experiment of the project with the slug, and then
\* returns a row of each of the two commits
C29_RevisionsExist ==
  [][(admin' # admin /\ admin'.op = "revisionsExistInProject") =>
       /\ admin'.state = "done"
       /\ admin'.ret[1].dataFound <=>
            /\ RecordedInProject(admin'.args.projectSlug, admin'.args.base)
            /\ RecordedInProject(admin'.args.projectSlug, admin'.args.change)
       /\ admin'.ret[1].dataFound =>
            /\ admin'.ret[1].base.commitid = admin'.args.base
            /\ admin'.ret[1].change.commitid = admin'.args.change]_vars

\* the rows of Project, Experiment, Trial and Source the baseline of the
\* project can come from: a source on the project's baseBranch, of another
\* commit than currentCommitId
BaselineTrials(projectName, currentCommitId) ==
  {x \in Joined : /\ x[1].key = <<projectName>> /\ x[1].attrs[2] # ""
                  /\ x[4].attrs[1] = x[1].attrs[2]
                  /\ x[4].key[1] # currentCommitId}

\* the start of the earliest trial of the experiment and source of x
EarliestStart(T, x) ==
  LET ts == {Timestamp(y[3].key[3]) : y \in {z \in T : z[2] = x[2] /\ z[4] = x[4]}}
  IN CHOOSE m \in ts : \A n \in ts : m <= n

\* the step in which getBaselineCommit returns
BaselineStep == admin' # admin /\ admin'.op = "getBaselineCommit"

\* C30 as stated: getBaselineCommit returns undefined when the project has no
\* baseBranch or no source of another commit on it has a trial, and else the
\* source of another commit that has the trial with the latest startTime
C30_LatestTrial ==
  [][BaselineStep =>
       LET T == BaselineTrials(admin'.args.projectName, admin'.args.currentCommitId)
       IN IF T = {} THEN admin'.ret = <<>>
          ELSE /\ admin'.ret # <<>>
               /\ admin'.ret[1].source.key[1] # admin'.args.currentCommitId
               /\ \E x \in T :
                    /\ x[4] = admin'.ret[1].source
                    /\ \A y \in T :
                         Timestamp(y[3].key[3]) <= Timestamp(x[3].key[3])]_vars

\* C30, amended: getBaselineCommit returns undefined when the project has no
\* baseBranch or no source of another commit on it has a trial, and else a
\* source of another commit on the baseBranch whose earliest trial in one
\* experiment starts no earlier than the earliest trial of any such source in
\* any experiment of the project
C30_LatestFirstTrial ==
  [][BaselineStep =>
       LET T == BaselineTrials(admin'.args.projectName, admin'.args.currentCommitId)
       IN IF T = {} THEN admin'.ret = <<>>
          ELSE /\ admin'.ret # <<>>
               /\ admin'.ret[1].source.key[1] # admin'.args.currentCommitId
               /\ admin'.ret[1].source.attrs[1] \in
                    {p.attrs[2] : p \in {q \in tbl["Project"] :
                                           q.key = <<admin'.args.projectName>>}}
               /\ \E x \in T :
                    /\ x[4] = admin'.ret[1].source
                    /\ admin'.ret[1].firstStart = EarliestStart(T, x)
                    /\ \A y \in T : EarliestStart(T, y) <= EarliestStart(T, x)]_vars

\* commit c1 has trials at t1 and t3, commit c3 one at t2, all on the base
\* branch, and getBaselineCommit("proj", "c2") returned c3
C30_Witness ==
  /\ admin.op = "getBaselineCommit" /\ admin.args.currentCommitId = "c2"
  /\ admin.ret # <<>> /\ admin.ret[1].source.key = <<"c3">>
  /\ \E p \in tbl["Project"] : p.key = <<"proj">> /\ p.attrs[2] = "main"
  /\ \E c \in tbl["Source"] :
       /\ c.key = <<"c1">> /\ c.attrs = <<"main">>
       /\ {t.key[3] : t \in {u \in tbl["Trial"] : u.attrs[1] = c.id}} = {"t1", "t3"}
  /\ \E t \in tbl["Trial"] : t.key[3] = "t2" /\ t.attrs[1] = admin.ret[1].source.id

\* the cells j of columns a, a + 1, a + 2 hold numbers
Populated(d, a, j) == \A i \in a..(a + 2) : d[i][j] # Null

\* the cells j of columns a, a + 1, a + 2 hold null
Nulled(d, a, j) == \A i \in a..(a + 2) : d[i][j] = Null

\* C31: a timeline response has 4 columns when baseBranchName is null and 7
\* otherwise; every column and sourceIds have one entry per result row, in the
\* order of the rows, which is that of startTime; with 7 columns every row
\* fills either the baseline triple or the change triple and has null in the
\* other; baseTimestamp and changeTimestamp are null or the startTime of a
\* row flagged isCurrent
C31_Rectangular ==
  (admin.op = "convertToTimelineResponse" /\ admin.ret # <<>>) =>
    LET rows == admin.args.rows
        r == admin.ret[1]
        d == r.data
        n == Len(rows)
    IN /\ DOMAIN d = IF admin.args.baseBranchName = "" THEN 1..4 ELSE 1..7
       /\ \A i \in DOMAIN d : Len(d[i]) = n
       /\ Len(r.sourceIds) = n
       /\ \A j \in 1..n : /\ d[1][j] = rows[j].starttime
                          /\ r.sourceIds[j] = rows[j].sourceid
       /\ \A j \in 1..(n - 1) : d[1][j] <= d[1][j + 1]
       /\ DOMAIN d = 1..7 =>
            \A j \in 1..n : \/ Populated(d, 2, j) /\ Nulled(d, 5, j)
                            \/ Nulled(d, 2, j) /\ Populated(d, 5, j)
       /\ DOMAIN d = 1..4 => \A j \in 1..n : Populated(d, 2, j)
       /\ r.baseTimestamp # Null =>
            \E j \in 1..n : rows[j].iscurrent /\ r.baseTimestamp = <<rows[j].starttime>>
       /\ r.changeTimestamp # Null =>
            \E j \in 1..n : rows[j].iscurrent /\ r.changeTimestamp = <<rows[j].starttime>>

\* a response with 7 columns for two rows, the first of the baseline and
\* current, the second of the change and not current
C31_Witness ==
  /\ admin.op = "convertToTimelineResponse" /\ admin.ret # <<>>
  /\ admin.args.baseBranchName = "main" /\ admin.args.changeBranchName = "feature"
  /\ Len(admin.args.rows) = 2
  /\ admin.args.rows[1].branch = "main" /\ admin.args.rows[1].iscurrent
  /\ admin.args.rows[2].branch = "feature" /\ ~admin.args.rows[2].iscurrent
  /\ admin.ret[1].baseTimestamp = <<admin.args.rows[1].starttime>>
  /\ admin.ret[1].changeTimestamp = Null
  /\ admin.ret[1].data[2][2] = Null /\ admin.ret[1].data[5][1] = Null

\* the optional filters a timeline request carries
FiltersOf(request) ==
  {f \in {"v", "c", "i", "ea"} :
     CASE f = "v" -> request.v # "" [] f = "c" -> request.c # ""
       [] f = "i" -> request.i # "" [] OTHER -> request.ea # ""}

\* C32: the statements constructTimelineQuery builds for two requests have the
\* same name exactly when they have the same text, which is exactly when the
\* requests carry the same optional filters, and the placeholder of every
\* added clause is the position of the filter's value in the parameter list
C32_StableQueryNames ==
  [][(admin.op = "constructTimelineQuery" /\ admin'.op = "constructTimelineQuery") =>
       LET q1 == admin.ret[1]
           q2 == admin'.ret[1]
       IN /\ (q1.name = q2.name) <=> (q1.text = q2.text)
          /\ (q1.name = q2.name) <=> (FiltersOf(admin.args) = FiltersOf(admin'.args))
          /\ Len(q2.text) = Cardinality(FiltersOf(admin'.args))
          /\ Len(q2.values) = 8 + Len(q2.text)
          /\ \A k \in 1..Len(q2.text) :
               /\ q2.text[k][2] = 8 + k
               /\ q2.values[q2.text[k][2]] =
                    CASE q2.text[k][1] = "r.varValue"  -> admin'.args.v
                      [] q2.text[k][1] = "r.cores"     -> admin'.args.c
                      [] q2.text[k][1] = "r.inputSize" -> admin'.args.i
                      [] OTHER                         -> admin'.args.ea]_vars

\* a statement with the filters c and ea, whose placeholders are $9 and $10
C32_Witness ==
  /\ admin.op = "constructTimelineQuery"
  /\ admin.args.v = "" /\ admin.args.c = "2" /\ admin.args.i = "" /\ admin.args.ea = "1"
  /\ admin.ret[1].name = "get-timeline-data-bpbs-cea"
  /\ admin.ret[1].text = <<<<"r.cores", 9>>, <<"r.extraArgs", 10>>>>
  /\ admin.ret[1].values[9] = "2" /\ admin.ret[1].values[10] = "1"

\* C33: a token is valid when it is constructed; a valid token becomes invalid
\* only by invalidateAndNew with delay 0 or by its timer; a token that is
\* invalid is invalid in every later state
C33_TokenMonotone ==
  [][/\ DOMAIN tokens \subseteq DOMAIN tokens'
     /\ \A i \in DOMAIN tokens' \ DOMAIN tokens : tokens'[i].valid
     /\ \A i \in DOMAIN tokens :
          /\ ~tokens[i].valid => ~tokens'[i].valid
          /\ (tokens[i].valid /\ ~tokens'[i].valid) =>
               \/ /\ InvalidateStep /\ i = statsValid
                  /\ tokens[i].invalidationDelay = 0
               \/ /\ tokens[i].timers # <<>> /\ tokens'[i].timers = <<>>
                  /\ tokens[i].invalidationDelay > 0]_vars

\* a token whose timer fired is invalid, was called again, and its successor
\* is valid
C33_Witness ==
  /\ Len(tokens) >= 2
  /\ ~tokens[1].valid /\ tokens[1].invalidationDelay > 0
  /\ tokens[1].invalidations >= 2 /\ tokens[1].timers = <<>>
  /\ tokens[2].valid

\* C34: a step of a recordMetaDataAndRuns call, or of the store on one of its
\* statements, leaves Measurement, ProfileData, Timeline, the timeline updater
\* and the stats-cache token as they are, and the call returns the number of
\* run groups of its payload
C34_MetaDataOnly ==
  [][\A r \in Slots :
       (req'[r] # req[r] /\ req'[r].kind = "meta") =>
         /\ measurement' = measurement /\ profileData' = profileData
         /\ timeline' = timeline /\ updater' = updater
         /\ tokens' = tokens /\ statsValid' = statsValid
         /\ req'[r].status = "done" => req'[r].ret[1] = Len(Payload(req'[r].p).data)]_vars

\* recordMetaDataAndRuns of the small payload returned 1 while a recordAllData
\* of it had handed values to the updater, which still holds them
C34_Witness ==
  \E r, r2 \in Slots :
    /\ req[r].status = "done" /\ req[r].kind = "meta" /\ req[r].ret[1] = 1
    /\ req[r2].status = "run" /\ req[r2].kind = "all"
    /\ updater.pending # <<>> /\ tbl["Run"] # {}

\* C35: getProjectByName returns the Project row with the name whenever the
\* store has one, cached or not, and null exactly when it has none
C35_ProjectFound ==
  [][(admin' # admin /\ admin'.op = "getProjectByName" /\ admin'.state = "done") =>
       LET rows == {p \in tbl["Project"] : p.key = <<admin'.args.projectName>>}
       IN /\ rows # {} => /\ admin'.ret[1].kind = "row"
                          /\ admin'.ret[1].row \in rows
          /\ rows = {} <=> admin'.ret[1].kind = "null"]_vars

\* what getProjectByName keeps of it: a project that is cached when the call
\* is made is returned as its row, and null is returned exactly when the store has no project of the name
C35_CachedOrNull ==
  [][(admin' # admin /\ admin'.op = "getProjectByName" /\ admin'.state = "done") =>
       LET rows == {p \in tbl["Project"] : p.key = <<admin'.args.projectName>>}
       IN /\ (admin.state # "fetchProject"
                /\ admin'.args.projectName \in DOMAIN cache["Project"]) =>
               admin'.ret[1] = Returned("row", cache["Project"][admin'.args.projectName])
          /\ rows = {} <=> admin'.ret[1].kind = "null"]_vars

\* C36: when recordAllData has returned, every tuple of the run group that
\* recordMeasurements did not send to the store has a Measurement row of its
\* key in the store
C36_SkippedAreStored ==
  \A r \in Slots :
    (req[r].status = "done" /\ req[r].kind = "all" /\ req[r].measDone > 0) =>
      LET T == PayloadTuples(req[r].p, req[r].measDone) IN
      \A i \in 1..Len(T) :
        T[i] \notin Range(req[r].sent) =>
          \E x \in measurement : MeasKey(x) = MeasKey(T[i])

\* C37: once no request is running, submitUpdateJobs has been called after
\* the last addValue of every recordAllData that returned normally, without
\* suppressTimeline, on a Database with a timeline updater
C37_NoStrandedValue ==
  (\A r \in Slots : req[r].status # "run") =>
    \A r \in Slots :
      ( /\ req[r].status = "done" /\ req[r].kind = "all"
        /\ updater.enabled /\ ~req[r].suppress /\ req[r].subAt >= 0 ) =>
        updater.submits > req[r].subAt

\* C38: every row held in a cache is, column for column, a row of the table
\* of its entity
C38_CacheCoherent ==
  \A e \in CachedEntities :
    \A k \in DOMAIN cache[e] : cache[e][k] \in tbl[e]

\* a dashCompare call returns, and the reportId it was made for
CompareStep == dash'.calls = dash.calls + 1

ComparedId == <<dash'.data.project, dash'.data.baselineHash6, dash'.data.changeHash6>>

\* the generation of the reportId has ended, with an error or without
Ended(id) ==
  id \in DOMAIN dash.reportGeneration /\ ~dash.reportGeneration[id].inProgress

C40_NotGeneratingForever ==
  [][(CompareStep /\ Ended(ComparedId)) =>
       /\ dash'.data.generatingReport = "false"
       /\ \/ dash'.data.report # <<>>
          \/ dash'.data.generationFailed = "true"]_vars

\* what the code keeps of C40: once the callback has run, a call returns the
\* report if its file exists, generationFailed if the callback got an error,
\* and generatingReport = true otherwise
C40_EndedOutcomes ==
  [][(CompareStep /\ Ended(ComparedId)) =>
       LET id == ComparedId
           d == dash'.data
       IN IF id \in DOMAIN dash.reports
            THEN d.report = dash.reports[id] /\ d.generatingReport = "false"
            ELSE IF dash.reportGeneration[id].error # NoError
              THEN d.generationFailed = "true" /\ d.generatingReport = "false"
              ELSE d.generatingReport = "true" /\ d.generationFailed = Undefined]_vars

\* C10: the tuples of a run group that recordMeasurements sent to the store are,
\* in payload order, those whose iteration exceeds the largest iteration that
\* the store held for (run, criterion, invocation) of the trial when the group
\* started
C10_SkipRule ==
  \A r \in Slots :
    (req[r].status = "done" /\ req[r].kind = "all" /\ req[r].measDone > 0) =>
      req[r].sent = NotSkipped(req[r].p, req[r].measDone, req[r].snapshot)

\* iterations 1..3 were stored, and the big payload's other 60 were sent
C10_Witness ==
  \E r \in Slots :
    /\ req[r].status = "done" /\ req[r].p = "big" /\ req[r].measDone = 1
    /\ Cardinality(req[r].snapshot) = 3
    /\ Len(req[r].sent) = 60

====
